---- MODULE Spec2Model ----
(***************************************************************************)
(* Prompt quality scoring of claude-x (src/src/claude_x/scoring.py) and    *)
(* the legacy batch ranking of src/src/claude_x/analytics.py.              *)
(*                                                                         *)
(* Numbers.  The code computes with Python floats.  The model computes     *)
(* with exact rationals [num, den] (den > 0) and rounds them the way       *)
(* round(x, 2) rounds the decimal value: to the nearest hundredth, an      *)
(* exact tie going to the even hundredth.  A value that round(x, 2)        *)
(* returns is held as an integer number of hundredths.  Scores that the    *)
(* code builds by adding 2.0 and 1.0 are held as integers (points).        *)
(* The legacy composite is a float sum of rounded terms: where its exact   *)
(* value is halfway between two hundredths the float lies on either side,  *)
(* and the model allows both hundredths (FloatRound2).                     *)
(*                                                                         *)
(* Prompts.  A prompt is None or a string.  A string is held as the        *)
(* sequence of its fragments, joined by single spaces; the fragments come  *)
(* from Vocabulary, and each regular expression of the code is the set of  *)
(* fragments it matches.  No pattern of the code matches across the space  *)
(* between two fragments of Vocabulary.                                    *)
(***************************************************************************)
EXTENDS Integers, Sequences, FiniteSets

VARIABLES
    op,     \* the function that was called, "none" between calls
    args,   \* its arguments
    ret,    \* the value it returned
    held,   \* results the caller keeps to compare: <<>> or one earlier result
    store   \* the sessions of the project in the Store, in the order of its rows

vars == <<op, args, ret, held, store>>

----------------------------------------------------------------------------
(* Bounds of the model *)

MaxTokens == 2
MaxMessageCount == 101
MaxLanguages == 5
MaxLines == 4
MaxCodeCount == 1
MaxPrompts == 3
MaxBatch == 2

----------------------------------------------------------------------------
(* Optional values: Python's None against a given integer *)

Absent == <<>>

Given(n) == <<n>>

\* Python's (x or 0) on an optional integer
OrZero(x) == IF x = Absent THEN 0 ELSE x[1]

----------------------------------------------------------------------------
(* Exact rationals for the float arithmetic *)

Rat(n, d) == [num |-> n, den |-> d]

RatInt(n) == Rat(n, 1)

RatLE(a, b) == a.num * b.den <= b.num * a.den

RatLT(a, b) == a.num * b.den < b.num * a.den

RatEq(a, b) == a.num * b.den = b.num * a.den

\* What a division by zero leaves in place of a number: ZeroDivisionError
ZeroDivisionError == [num |-> 0, den |-> 0]

Raised(x) == x.den = 0

\* n / d of two integers, the denominator kept positive
Div(n, d) ==
    IF d = 0 THEN ZeroDivisionError
    ELSE IF d < 0 THEN Rat(0 - n, 0 - d)
    ELSE Rat(n, d)

\* Python's min(a, b): b is returned only when b < a
RatMin(a, b) == IF RatLT(b, a) THEN b ELSE a

\* an exception goes through every later operation
RatMinOrRaise(a, b) == IF Raised(a) THEN a ELSE RatMin(a, b)

Max(a, b) == IF a >= b THEN a ELSE b

RECURSIVE GCD(_, _)
GCD(a, b) == IF b = 0 THEN a ELSE GCD(b, a % b)

\* 100 * x as a fraction in lower terms: the hundredths of x before rounding
Hundredths(x) ==
    LET g == GCD(100, x.den)
    IN  Rat((100 \div g) * x.num, x.den \div g)

\* SQLite's ROUND(x, 2), as a number of hundredths; an exact tie goes away
\* from zero
SqlRound2(x) ==
    LET h == Hundredths(x)
        f == h.num \div h.den
        r == h.num - f * h.den
    IN  IF 2 * r < h.den THEN f
        ELSE IF 2 * r > h.den THEN f + 1
        ELSE IF h.num >= 0 THEN f + 1 ELSE f

\* round(x, 2), as a number of hundredths; an exact tie goes to the even one
Round2(x) ==
    LET h == Hundredths(x)
        f == h.num \div h.den
        r == h.num - f * h.den
    IN  IF 2 * r < h.den THEN f
        ELSE IF 2 * r > h.den THEN f + 1
        ELSE IF f % 2 = 0 THEN f ELSE f + 1

\* round(s, 2) of a float sum s whose exact value is x, as the hundredths it
\* can give: the sum carries the rounding errors of its terms, so when x is
\* exactly halfway between two hundredths s lies on either side
FloatRound2(x) ==
    LET h == Hundredths(x)
        f == h.num \div h.den
        r == h.num - f * h.den
    IN  IF 2 * r = h.den THEN { f, f + 1 } ELSE { Round2(x) }

----------------------------------------------------------------------------
(* Prompts *)

\* A fragment with every signal of the structure and the context score
Rich == "fix only like LoginForm.tsx React ~x~ error now"

\* The fragments a prompt of the model is made of
Vocabulary ==
    { "fix", "LoginForm.tsx", "only", "like", "React", "~x~", "error",
      "TypeError:", "now", "ok", "geugeo", "z{500}", Rich }

\* len() of each fragment.  "~x~" is the letter x between two backticks (U+0060),
\* "geugeo" is the two-character Korean word U+ADF8 U+AC70 and "z{500}" is
\* the letter z written 500 times
TokenLen(w) ==
    CASE w = "fix" -> 3
      [] w = "LoginForm.tsx" -> 13
      [] w = "only" -> 4
      [] w = "like" -> 4
      [] w = "React" -> 5
      [] w = "~x~" -> 3
      [] w = "error" -> 5
      [] w = "TypeError:" -> 10
      [] w = "now" -> 3
      [] w = "ok" -> 2
      [] w = "geugeo" -> 2
      [] w = "z{500}" -> 500
      [] w = Rich -> 47

None == [kind |-> "None", toks |-> <<>>]

Str(toks) == [kind |-> "str", toks |-> toks]

RECURSIVE SeqsUpTo(_, _)
SeqsUpTo(S, n) ==
    IF n = 0 THEN { <<>> }
    ELSE LET shorter == SeqsUpTo(S, n - 1)
         IN  shorter \cup { Append(s, w) : s \in shorter, w \in S }

Prompts == { None } \cup { Str(t) : t \in SeqsUpTo(Vocabulary, MaxTokens) }

\* (not prompt): None or the empty string
Falsy(prompt) == prompt.kind = "None" \/ prompt.toks = <<>>

RECURSIVE SumLen(_)
SumLen(toks) ==
    IF toks = <<>> THEN 0 ELSE TokenLen(Head(toks)) + SumLen(Tail(toks))

\* len(prompt): the fragments and the single spaces between them
StrLen(toks) == IF toks = <<>> THEN 0 ELSE SumLen(toks) + (Len(toks) - 1)

\* re.search(p, prompt) for a pattern given as the set of fragments it matches
Search(words, toks) == \E i \in DOMAIN toks : toks[i] \in words

\* goal_patterns
GoalWords == { "fix", Rich }

\* target_patterns
TargetWords == { "LoginForm.tsx", Rich }

\* constraint_patterns
ConstraintWords == { "only", Rich }

\* example_patterns
ExampleWords == { "like", Rich }

\* the file/path pattern of the context score
PathWords == { "LoginForm.tsx", Rich }

\* tech_keywords
TechWords == { "React", Rich }

\* the code block / inline code test
CodeWords == { "~x~", Rich }

\* error_patterns
ErrorWords == { "error", "TypeError:", Rich }

\* context_patterns
BackgroundWords == { "now", Rich }

----------------------------------------------------------------------------
(* Metric functions *)

\* calculate_structure_score without its guard on an empty prompt and with
\* the length band written without its lower end
calculate_structure_score_unguarded(prompt) ==
    LET t == prompt.toks
        goal == IF Search(GoalWords, t) THEN 2 ELSE 0
        target == IF Search(TargetWords, t) THEN 2 ELSE 0
        constraint == IF Search(ConstraintWords, t) THEN 2 ELSE 0
        example == IF Search(ExampleWords, t) THEN 2 ELSE 0
        length == StrLen(t)
        band == IF length <= 500 THEN 2
                ELSE IF length <= 1000 THEN 1
                ELSE 0
        score == goal + target + constraint + example + band
    IN  IF score < 10 THEN score ELSE 10

calculate_structure_score(prompt) ==
    IF Falsy(prompt) THEN 0
    ELSE
        LET t == prompt.toks
            goal == IF Search(GoalWords, t) THEN 2 ELSE 0
            target == IF Search(TargetWords, t) THEN 2 ELSE 0
            constraint == IF Search(ConstraintWords, t) THEN 2 ELSE 0
            example == IF Search(ExampleWords, t) THEN 2 ELSE 0
            length == StrLen(t)
            band == IF 20 <= length /\ length <= 500 THEN 2
                    ELSE IF 10 <= length /\ length <= 1000 THEN 1
                    ELSE 0
            score == goal + target + constraint + example + band
        IN  IF score < 10 THEN score ELSE 10

calculate_context_score(prompt) ==
    IF Falsy(prompt) THEN 0
    ELSE
        LET t == prompt.toks
            path == IF Search(PathWords, t) THEN 2 ELSE 0
            tech == IF Search(TechWords, t) THEN 2 ELSE 0
            code == IF Search(CodeWords, t) THEN 2 ELSE 0
            error == IF Search(ErrorWords, t) THEN 2 ELSE 0
            background == IF Search(BackgroundWords, t) THEN 2 ELSE 0
            score == path + tech + code + error + background
        IN  IF score < 10 THEN score ELSE 10

\* calculate_efficiency_score with < written for <=
calculate_efficiency_score_strict(message_count) ==
    IF message_count < 5 THEN 10
    ELSE IF message_count < 10 THEN 9
    ELSE IF message_count < 20 THEN 8
    ELSE IF message_count < 35 THEN 6
    ELSE IF message_count < 50 THEN 5
    ELSE IF message_count < 75 THEN 4
    ELSE IF message_count < 100 THEN 3
    ELSE 2

calculate_efficiency_score(message_count) ==
    IF message_count <= 5 THEN 10
    ELSE IF message_count <= 10 THEN 9
    ELSE IF message_count <= 20 THEN 8
    ELSE IF message_count <= 35 THEN 6
    ELSE IF message_count <= 50 THEN 5
    ELSE IF message_count <= 75 THEN 4
    ELSE IF message_count <= 100 THEN 3
    ELSE 2

\* calculate_diversity_score with > written for >=
calculate_diversity_score_strict(language_diversity) ==
    IF language_diversity > 4 THEN 10
    ELSE IF language_diversity > 3 THEN 8
    ELSE IF language_diversity > 2 THEN 6
    ELSE IF language_diversity > 1 THEN 4
    ELSE 0

calculate_diversity_score(language_diversity) ==
    IF language_diversity >= 4 THEN 10
    ELSE IF language_diversity >= 3 THEN 8
    ELSE IF language_diversity >= 2 THEN 6
    ELSE IF language_diversity >= 1 THEN 4
    ELSE 0

\* calculate_productivity_score with its guard written max_lines < 0
calculate_productivity_score_zero(total_lines, max_lines) ==
    IF max_lines < 0 THEN RatInt(0)
    ELSE RatMinOrRaise(Div(OrZero(total_lines) * 10, max_lines), RatInt(10))

\* total_lines is optional (total_lines or 0); the result is a rational
calculate_productivity_score(total_lines, max_lines) ==
    IF max_lines <= 0 THEN RatInt(0)
    ELSE RatMinOrRaise(Div(OrZero(total_lines) * 10, max_lines), RatInt(10))

----------------------------------------------------------------------------
(* Composite scorer, v2 *)

\* a structure weight of 0.30
WEIGHT_STRUCTURE_heavy == 25 + 5

\* the weights of the v2 composite, in hundredths
WEIGHT_STRUCTURE == 25
WEIGHT_CONTEXT == 25
WEIGHT_PRODUCTIVITY == 20
WEIGHT_EFFICIENCY == 15
WEIGHT_DIVERSITY == 15

\* structure * 0.25 + context * 0.25 + productivity * 0.20 + efficiency * 0.15
\* + diversity * 0.15, productivity being a rational and the others integers
WeightedSum(structure, context, productivity, efficiency, diversity) ==
    IF Raised(productivity) THEN productivity
    ELSE Rat(
        ( WEIGHT_STRUCTURE * structure + WEIGHT_CONTEXT * context
          + WEIGHT_EFFICIENCY * efficiency + WEIGHT_DIVERSITY * diversity )
            * productivity.den
          + WEIGHT_PRODUCTIVITY * productivity.num,
        100 * productivity.den)

\* calculate_composite_score_v2 with efficiency and diversity fed each other's
\* argument
calculate_composite_score_v2_swapped(prompt, code_count, total_lines, message_count, language_diversity, max_lines) ==
    LET structure == calculate_structure_score(prompt)
        context == calculate_context_score(prompt)
        productivity == calculate_productivity_score(total_lines, max_lines)
        efficiency == calculate_efficiency_score(language_diversity)
        diversity == calculate_diversity_score(message_count)
        composite ==
            WeightedSum(structure, context, productivity, efficiency, diversity)
    IN  [ structure_score |-> Round2(RatInt(structure)),
          context_score |-> Round2(RatInt(context)),
          productivity_score |-> Round2(productivity),
          efficiency_score |-> Round2(RatInt(efficiency)),
          diversity_score |-> Round2(RatInt(diversity)),
          composite_score |-> Round2(composite) ]

\* the returned dict; code_count is accepted and not read
calculate_composite_score_v2(prompt, code_count, total_lines, message_count, language_diversity, max_lines) ==
    LET structure == calculate_structure_score(prompt)
        context == calculate_context_score(prompt)
        productivity == calculate_productivity_score(total_lines, max_lines)
        efficiency == calculate_efficiency_score(message_count)
        diversity == calculate_diversity_score(language_diversity)
        composite ==
            WeightedSum(structure, context, productivity, efficiency, diversity)
    IN  [ structure_score |-> Round2(RatInt(structure)),
          context_score |-> Round2(RatInt(context)),
          productivity_score |-> Round2(productivity),
          efficiency_score |-> Round2(RatInt(efficiency)),
          diversity_score |-> Round2(RatInt(diversity)),
          composite_score |-> Round2(composite) ]

----------------------------------------------------------------------------
(* Composite scorer, legacy (scoring.py).  Efficiency and clarity are in   *)
(* hundredths, quality in points, the weights in tenths.                   *)

LEGACY_WEIGHT_EFFICIENCY == 4
LEGACY_WEIGHT_CLARITY == 3
LEGACY_WEIGHT_PRODUCTIVITY == 2
LEGACY_WEIGHT_QUALITY == 1

\* calculate_legacy_efficiency without round(..., 2): the quotient cut to
\* hundredths
calculate_legacy_efficiency_cut(code_count, user_prompt_count) ==
    IF user_prompt_count = 0 THEN 0
    ELSE (100 * code_count) \div user_prompt_count

calculate_legacy_efficiency(code_count, user_prompt_count) ==
    IF user_prompt_count = 0 THEN 0
    ELSE Round2(Div(code_count, user_prompt_count))

calculate_legacy_clarity(message_count) ==
    IF message_count = 0 THEN 0
    ELSE Round2(Div(100, message_count))

calculate_legacy_quality(sensitive_count, language_diversity) ==
    IF sensitive_count = 0 /\ language_diversity >= 3 THEN 10
    ELSE IF sensitive_count = 0 /\ language_diversity >= 2 THEN 8
    ELSE IF sensitive_count = 0 THEN 6
    ELSE IF language_diversity >= 3 THEN 5
    ELSE 3

\* efficiency_score, clarity_score and productivity_score are optional (x or 0);
\* the values the call can return
calculate_legacy_composite(efficiency_score, clarity_score, productivity_score, quality_score, max_lines) ==
    LET m == Max(max_lines, 1)
        e == OrZero(efficiency_score)
        c == OrZero(clarity_score)
        p == OrZero(productivity_score)
    IN  FloatRound2(Rat(
            (LEGACY_WEIGHT_EFFICIENCY * e + LEGACY_WEIGHT_CLARITY * c) * m
              + LEGACY_WEIGHT_PRODUCTIVITY * 1000 * p
              + LEGACY_WEIGHT_QUALITY * 100 * quality_score * m,
            1000 * m))

----------------------------------------------------------------------------
(* Aggregate reporting (analytics.py): the legacy ranking of a batch *)

\* ROUND(CAST(code_count AS FLOAT) / NULLIF(user_prompt_count, 0), 2): NULL on
\* a zero count
SqlEfficiency(code_count, user_prompt_count) ==
    IF user_prompt_count = 0 THEN Absent
    ELSE Given(SqlRound2(Div(code_count, user_prompt_count)))

\* ROUND(100.0 / NULLIF(message_count, 0), 2)
SqlClarity(message_count) ==
    IF message_count = 0 THEN Absent
    ELSE Given(SqlRound2(Div(100, message_count)))

\* the CASE that gives quality_score
SqlQuality(sensitive_count, language_diversity) ==
    IF sensitive_count = 0 /\ language_diversity >= 3 THEN 10
    ELSE IF sensitive_count = 0 /\ language_diversity >= 2 THEN 8
    ELSE IF sensitive_count = 0 THEN 6
    ELSE IF language_diversity >= 3 THEN 5
    ELSE 3

\* one row of the SELECT for the session stored at place id
SqlRow(id, m) ==
    [ session_id |-> id,
      first_prompt |-> m.first_prompt,
      message_count |-> m.message_count,
      user_prompt_count |-> m.user_prompt_count,
      code_count |-> m.code_count,
      total_lines |-> m.total_lines,
      language_diversity |-> m.language_diversity,
      sensitive_count |-> m.sensitive_count,
      efficiency_score |-> SqlEfficiency(m.code_count, m.user_prompt_count),
      clarity_score |-> SqlClarity(m.message_count),
      productivity_score |-> m.total_lines,
      quality_score |-> SqlQuality(m.sensitive_count, m.language_diversity) ]

\* max([x['total_lines'] or 0 for x in results]), results not empty
RECURSIVE BatchMax(_)
BatchMax(results) ==
    IF Len(results) = 1 THEN OrZero(results[1].total_lines)
    ELSE Max(OrZero(Head(results).total_lines), BatchMax(Tail(results)))

\* the composite of a row normalized by its own total_lines instead of the
\* maximum of the batch
RowComposite_own(r, max_lines) ==
    LET m == Max(OrZero(r.total_lines), 1)
    IN  FloatRound2(Rat(
            (4 * OrZero(r.efficiency_score) + 3 * OrZero(r.clarity_score)) * m
              + 2 * 1000 * OrZero(r.productivity_score)
              + 1 * 100 * r.quality_score * m,
            1000 * m))

\* the values the loop body can give r['composite_score']
RowComposite(r, max_lines) ==
    LET m == Max(max_lines, 1)
    IN  FloatRound2(Rat(
            (4 * OrZero(r.efficiency_score) + 3 * OrZero(r.clarity_score)) * m
              + 2 * 1000 * OrZero(r.productivity_score)
              + 1 * 100 * r.quality_score * m,
            1000 * m))

\* the row with its composite_score
Scored(r, composite_score) ==
    [ k \in DOMAIN r \cup { "composite_score" } |->
        IF k = "composite_score" THEN composite_score ELSE r[k] ]

\* the composite scores the loop can give the rows of results
Composites(results, max_lines) ==
    LET n == Len(results)
        each == [ i \in 1 .. n |-> RowComposite(results[i], max_lines) ]
    IN  { c \in [ 1 .. n -> UNION { each[i] : i \in 1 .. n } ] :
            \A i \in 1 .. n : c[i] \in each[i] }

\* x put into a list sorted by falling composite_score, after the rows that
\* score as much (sorted() is stable)
RECURSIVE InsertDesc(_, _)
InsertDesc(sorted, x) ==
    IF sorted = <<>> THEN <<x>>
    ELSE IF Head(sorted).composite_score >= x.composite_score
         THEN <<Head(sorted)>> \o InsertDesc(Tail(sorted), x)
         ELSE <<x>> \o sorted

\* sorted(results, key=lambda x: x['composite_score'], reverse=True)
RECURSIVE SortedDesc(_, _)
SortedDesc(done, rest) ==
    IF rest = <<>> THEN done
    ELSE SortedDesc(InsertDesc(done, Head(rest)), Tail(rest))

\* the lists analyze_prompt_quality can return for the rows of the query
analyze_prompt_quality(rows) ==
    LET results == [ i \in 1 .. Len(rows) |-> SqlRow(i, rows[i]) ]
    IN  IF results = <<>> THEN { <<>> }
        ELSE LET max_lines == BatchMax(results)
             IN  { SortedDesc(<<>>, [ i \in 1 .. Len(results) |->
                                       Scored(results[i], c[i]) ]) :
                     c \in Composites(results, max_lines) }

----------------------------------------------------------------------------
(* Inputs *)

MessageCounts == 0 .. MaxMessageCount

LanguageCounts == (0 - 1) .. MaxLanguages

TotalLines == { Absent } \cup { Given(n) : n \in (0 - 1) .. MaxLines }

DEFAULT_MAX_LINES == 1000

MaxLinesValues == ((0 - 1) .. (MaxLines - 1)) \cup { DEFAULT_MAX_LINES }

CodeCounts == 0 .. MaxCodeCount

\* the ends of the efficiency buckets and the counts next to them
BucketEnds == { 5, 10, 20, 35, 50, 75, 100 }

MessageCountSamples == { 0 } \cup BucketEnds \cup { b + 1 : b \in BucketEnds }

\* the prompts the composite is called with: None, the empty string and one
\* prompt for each of four score levels
CompositePrompts ==
    { None, Str(<<>>), Str(<<"fix">>), Str(<<"LoginForm.tsx">>), Str(<<Rich>>) }

\* the keyword arguments of one call of calculate_composite_score_v2
Sessions ==
    [ prompt : CompositePrompts, code_count : CodeCounts,
      total_lines : TotalLines, message_count : MessageCountSamples,
      language_diversity : LanguageCounts, max_lines : MaxLinesValues ]

\* the sessions that are compared two by two
CompareSessions ==
    [ prompt : { Str(<<"fix">>), Str(<<"LoginForm.tsx">>), Str(<<Rich>>) },
      code_count : { MaxCodeCount },
      total_lines : { Given(0), Given(1), Given(MaxLines) },
      message_count : { 5, 50, MaxMessageCount },
      language_diversity : { 1, 2, MaxLanguages },
      max_lines : { MaxLines - 1, DEFAULT_MAX_LINES } ]

PromptCounts == 0 .. MaxPrompts

LegacyCodeCounts == 0 .. (MaxCodeCount + 1)

SensitiveCounts == 0 .. 1

\* the values calculate_legacy_efficiency and calculate_legacy_clarity hand to
\* calculate_legacy_composite, and a missing value
EfficiencyScores ==
    { Absent } \cup
    { Given(calculate_legacy_efficiency(c, u)) : c \in LegacyCodeCounts, u \in PromptCounts }

ClarityScores ==
    { Absent } \cup { Given(calculate_legacy_clarity(m)) : m \in { 0, 1, 3, 7 } }

QualityScores == { 3, 5, 6, 8, 10 }

\* session metrics the Store holds: every session of the query has a code
\* snippet (HAVING code_count > 0) and so a message
StoreMetrics ==
    { [ first_prompt |-> Str(<< "fix" >>),
        message_count |-> 1, user_prompt_count |-> 1, code_count |-> 1,
        total_lines |-> Given(4), language_diversity |-> 1, sensitive_count |-> 0 ],
      [ first_prompt |-> Str(<< "LoginForm.tsx" >>),
        message_count |-> 3, user_prompt_count |-> 1, code_count |-> 2,
        total_lines |-> Given(1), language_diversity |-> 2, sensitive_count |-> 0 ],
      [ first_prompt |-> Str(<< "TypeError:" >>),
        message_count |-> 3, user_prompt_count |-> 3, code_count |-> 1,
        total_lines |-> Given(2), language_diversity |-> 1, sensitive_count |-> 0 ],
      [ first_prompt |-> Str(<< "ok" >>),
        message_count |-> 7, user_prompt_count |-> 3, code_count |-> 2,
        total_lines |-> Given(0), language_diversity |-> 0, sensitive_count |-> 1 ],
      [ first_prompt |-> Str(<< "fix", "LoginForm.tsx" >>),
        message_count |-> 7, user_prompt_count |-> 0, code_count |-> 1,
        total_lines |-> Absent, language_diversity |-> 1, sensitive_count |-> 0 ],
      [ first_prompt |-> Str(<< Rich >>),
        message_count |-> 7, user_prompt_count |-> 3, code_count |-> 2,
        total_lines |-> Given(2), language_diversity |-> 1, sensitive_count |-> 0 ],
      [ first_prompt |-> None,
        message_count |-> 9, user_prompt_count |-> 3, code_count |-> 4,
        total_lines |-> Given(3), language_diversity |-> 3, sensitive_count |-> 0 ],
      [ first_prompt |-> Str(<< "error" >>),
        message_count |-> 9, user_prompt_count |-> 4, code_count |-> 3,
        total_lines |-> Given(6), language_diversity |-> 3, sensitive_count |-> 2 ],
      [ first_prompt |-> Str(<< "fix" >>),
        message_count |-> 50, user_prompt_count |-> 8, code_count |-> 1,
        total_lines |-> Given(2), language_diversity |-> 1, sensitive_count |-> 1 ] }

\* the rows a query of the Store can return
Batches == SeqsUpTo(StoreMetrics, MaxBatch)

----------------------------------------------------------------------------
(* The calls.  The program is synchronous: a call runs to its result and   *)
(* the caller takes the result before the next call is made.               *)

Idle == op = "none"

Init ==
    /\ op = "none"
    /\ args = <<>>
    /\ ret = <<>>
    /\ held = <<>>
    /\ store = <<>>

StructureScore ==
    /\ Idle
    /\ \E prompt \in Prompts :
        /\ op' = "calculate_structure_score"
        /\ args' = [prompt |-> prompt]
        /\ ret' = calculate_structure_score(prompt)
    /\ UNCHANGED <<held, store>>

ContextScore ==
    /\ Idle
    /\ \E prompt \in Prompts :
        /\ op' = "calculate_context_score"
        /\ args' = [prompt |-> prompt]
        /\ ret' = calculate_context_score(prompt)
    /\ UNCHANGED <<held, store>>

EfficiencyScore ==
    /\ Idle
    /\ \E message_count \in MessageCounts :
        /\ op' = "calculate_efficiency_score"
        /\ args' = [message_count |-> message_count]
        /\ ret' = calculate_efficiency_score(message_count)
    /\ UNCHANGED <<held, store>>

DiversityScore ==
    /\ Idle
    /\ \E language_diversity \in LanguageCounts :
        /\ op' = "calculate_diversity_score"
        /\ args' = [language_diversity |-> language_diversity]
        /\ ret' = calculate_diversity_score(language_diversity)
    /\ UNCHANGED <<held, store>>

ProductivityScore ==
    /\ Idle
    /\ \E total_lines \in TotalLines, max_lines \in MaxLinesValues :
        /\ op' = "calculate_productivity_score"
        /\ args' = [total_lines |-> total_lines, max_lines |-> max_lines]
        /\ ret' = calculate_productivity_score(total_lines, max_lines)
    /\ UNCHANGED <<held, store>>

\* one call of calculate_composite_score_v2 on the session s
ScoreV2(s) ==
    calculate_composite_score_v2(
        s.prompt, s.code_count, s.total_lines, s.message_count,
        s.language_diversity, s.max_lines)

CompositeScoreV2 ==
    /\ Idle
    /\ \E s \in Sessions :
        /\ op' = "calculate_composite_score_v2"
        /\ args' = s
        /\ ret' = ScoreV2(s)
    /\ UNCHANGED <<held, store>>

\* The caller takes the result
Return ==
    /\ ~Idle
    /\ op' = "none"
    /\ args' = <<>>
    /\ ret' = <<>>
    /\ held' = <<>>
    /\ UNCHANGED store

Next ==
    \/ StructureScore
    \/ ContextScore
    \/ EfficiencyScore
    \/ DiversityScore
    \/ ProductivityScore
    \/ CompositeScoreV2
    \/ Return

Spec == Init /\ [][Next]_vars

----------------------------------------------------------------------------
(* Two sessions scored one after the other and compared, as the tests do   *)
(* (high_quality = ..., low_quality = ..., then the two composites).       *)

\* the first session is scored and its result kept
ScoreFirst ==
    /\ Idle
    /\ held = <<>>
    /\ \E a \in CompareSessions :
        held' = << [args |-> a, ret |-> ScoreV2(a)] >>
    /\ UNCHANGED <<op, args, ret, store>>

\* the second session is scored
ScoreSecond ==
    /\ Idle
    /\ held # <<>>
    /\ \E b \in CompareSessions :
        /\ op' = "calculate_composite_score_v2"
        /\ args' = b
        /\ ret' = ScoreV2(b)
    /\ UNCHANGED <<held, store>>

NextCompare ==
    \/ ScoreFirst
    \/ ScoreSecond
    \/ Return

SpecCompare == Init /\ [][NextCompare]_vars

----------------------------------------------------------------------------
(* The legacy scheme: the four legacy functions, and the ranking of the    *)
(* sessions of the Store, which changes as sessions are imported.          *)

LegacyEfficiency ==
    /\ Idle
    /\ \E code_count \in LegacyCodeCounts, user_prompt_count \in PromptCounts :
        /\ op' = "calculate_legacy_efficiency"
        /\ args' = [ code_count |-> code_count,
                     user_prompt_count |-> user_prompt_count ]
        /\ ret' = calculate_legacy_efficiency(code_count, user_prompt_count)
    /\ UNCHANGED <<held, store>>

LegacyClarity ==
    /\ Idle
    /\ \E message_count \in MessageCounts :
        /\ op' = "calculate_legacy_clarity"
        /\ args' = [ message_count |-> message_count ]
        /\ ret' = calculate_legacy_clarity(message_count)
    /\ UNCHANGED <<held, store>>

LegacyQuality ==
    /\ Idle
    /\ \E sensitive_count \in SensitiveCounts, language_diversity \in LanguageCounts :
        /\ op' = "calculate_legacy_quality"
        /\ args' = [ sensitive_count |-> sensitive_count,
                     language_diversity |-> language_diversity ]
        /\ ret' = calculate_legacy_quality(sensitive_count, language_diversity)
    /\ UNCHANGED <<held, store>>

LegacyComposite ==
    /\ Idle
    /\ \E efficiency_score \in EfficiencyScores, clarity_score \in ClarityScores,
          productivity_score \in TotalLines, quality_score \in QualityScores,
          max_lines \in MaxLinesValues :
        /\ op' = "calculate_legacy_composite"
        /\ args' = [ efficiency_score |-> efficiency_score,
                     clarity_score |-> clarity_score,
                     productivity_score |-> productivity_score,
                     quality_score |-> quality_score,
                     max_lines |-> max_lines ]
        /\ ret' \in calculate_legacy_composite(
                       efficiency_score, clarity_score, productivity_score,
                       quality_score, max_lines)
    /\ UNCHANGED <<held, store>>

\* analyze_prompt_quality on the rows the Store returns for the project
AnalyzeBatch ==
    /\ Idle
    /\ \E rows \in Batches :
        /\ op' = "analyze_prompt_quality"
        /\ args' = [ rows |-> rows ]
        /\ ret' \in analyze_prompt_quality(rows)
    /\ UNCHANGED <<held, store>>

NextLegacy ==
    \/ LegacyEfficiency
    \/ LegacyClarity
    \/ LegacyQuality
    \/ LegacyComposite
    \/ AnalyzeBatch
    \/ Return

SpecLegacy == Init /\ [][NextLegacy]_vars

----------------------------------------------------------------------------
(* The ranking over time: sessions are imported into the Store between     *)
(* two reports.                                                            *)

\* a session is imported into the Store
ImportSession ==
    /\ Idle
    /\ Len(store) < MaxBatch
    /\ \E m \in StoreMetrics : store' = Append(store, m)
    /\ UNCHANGED <<op, args, ret, held>>

\* analyze_prompt_quality on the sessions now in the Store
AnalyzePromptQuality ==
    /\ Idle
    /\ op' = "analyze_prompt_quality"
    /\ args' = [ rows |-> store ]
    /\ ret' \in analyze_prompt_quality(store)
    /\ UNCHANGED <<held, store>>

\* the caller keeps the report it was given
KeepReport ==
    /\ op = "analyze_prompt_quality"
    /\ held' = << [args |-> args, ret |-> ret] >>
    /\ op' = "none"
    /\ args' = <<>>
    /\ ret' = <<>>
    /\ UNCHANGED store

NextBatch ==
    \/ ImportSession
    \/ AnalyzePromptQuality
    \/ KeepReport
    \/ Return

SpecBatch == Init /\ [][NextBatch]_vars

----------------------------------------------------------------------------
(* Metric functions: range and step tables *)

EmptyPrompt(prompt) == prompt = None \/ prompt = Str(<<>>)

\* C1: calculate_structure_score and calculate_context_score return a value
\* in [0,10] for every prompt, and exactly 0 for the empty string and for None.
C1_StructureContextRange ==
    (op \in { "calculate_structure_score", "calculate_context_score" }) =>
        /\ 0 <= ret
        /\ ret <= 10
        /\ (EmptyPrompt(args.prompt) => ret = 0)

C1_Witness ==
    \/ /\ op = "calculate_context_score"
       /\ args.prompt = None
       /\ ret = 0
    \/ /\ op = "calculate_structure_score"
       /\ args.prompt = Str(<<>>)
       /\ ret = 0

\* the step table of the efficiency score, as the claim states it
EfficiencyStep(m) ==
    CASE m <= 5 -> 10
      [] 5 < m /\ m <= 10 -> 9
      [] 10 < m /\ m <= 20 -> 8
      [] 20 < m /\ m <= 35 -> 6
      [] 35 < m /\ m <= 50 -> 5
      [] 50 < m /\ m <= 75 -> 4
      [] 75 < m /\ m <= 100 -> 3
      [] 100 < m -> 2

\* C2: calculate_efficiency_score is the step function <=5 -> 10, <=10 -> 9,
\* <=20 -> 8, <=35 -> 6, <=50 -> 5, <=75 -> 4, <=100 -> 3, else 2; each
\* boundary belongs to the lower-count bucket, and a larger message_count never
\* scores higher.
C2_EfficiencyStep ==
    op = "calculate_efficiency_score" =>
        /\ ret = EfficiencyStep(args.message_count)
        /\ (args.message_count \in { 5, 10, 20, 35, 50, 75, 100 } =>
                ret > calculate_efficiency_score(args.message_count + 1))
        /\ \A m2 \in MessageCounts :
                args.message_count <= m2 => calculate_efficiency_score(m2) <= ret

C2_Witness ==
    /\ op = "calculate_efficiency_score"
    /\ args.message_count = 100
    /\ ret = 3

\* the step table of the diversity score, as the claim states it
DiversityStep(n) ==
    CASE n >= 4 -> 10
      [] n = 3 -> 8
      [] n = 2 -> 6
      [] n = 1 -> 4
      [] n <= 0 -> 0

\* C3: calculate_diversity_score is the step function >=4 -> 10 (capped),
\* 3 -> 8, 2 -> 6, 1 -> 4, 0 or less -> 0, and a larger count never scores lower.
C3_DiversityStep ==
    op = "calculate_diversity_score" =>
        /\ ret = DiversityStep(args.language_diversity)
        /\ \A n2 \in LanguageCounts :
                args.language_diversity <= n2 => ret <= calculate_diversity_score(n2)

C3_Witness ==
    /\ op = "calculate_diversity_score"
    /\ args.language_diversity = 5
    /\ ret = 10

\* C4: calculate_productivity_score(total_lines, max_lines) is
\* min(10, total_lines / max_lines * 10) when max_lines > 0 (10 when
\* total_lines >= max_lines, 0 when total_lines = 0), it is 0 when max_lines <= 0,
\* and no division error is raised.
C4_Productivity ==
    op = "calculate_productivity_score" =>
        LET t == OrZero(args.total_lines)
            m == args.max_lines
        IN  /\ ~Raised(ret)
            /\ (m > 0 /\ 10 * t <= 10 * m => ret.num * m = 10 * t * ret.den)
            /\ (m > 0 /\ 10 * t > 10 * m => ret.num = 10 * ret.den)
            /\ (m > 0 /\ t >= m => ret.num = 10 * ret.den)
            /\ (m > 0 /\ t = 0 => ret.num = 0)
            /\ (m <= 0 => ret.num = 0)

C4_Witness ==
    /\ op = "calculate_productivity_score"
    /\ args.max_lines = 0
    /\ args.total_lines = Given(MaxLines)
    /\ ret = RatInt(0)

----------------------------------------------------------------------------
(* Composite scorer, v2 *)

V2Called == op = "calculate_composite_score_v2"

\* the inputs the composite is specified for
ValidInputs(s) ==
    /\ s.code_count >= 0
    /\ s.total_lines # Absent
    /\ OrZero(s.total_lines) >= 0
    /\ s.message_count >= 0
    /\ s.language_diversity >= 0
    /\ s.max_lines > 0

\* C5: the five v2 weights sum to 1.0 (100 hundredths), and for every prompt,
\* non-negative code_count, total_lines, message_count, language_diversity and
\* positive max_lines the composite_score is in [0,10].
C5_CompositeRange ==
    /\ WEIGHT_STRUCTURE + WEIGHT_CONTEXT + WEIGHT_PRODUCTIVITY
            + WEIGHT_EFFICIENCY + WEIGHT_DIVERSITY = 100
    /\ (V2Called /\ ValidInputs(args)) =>
            (0 <= ret.composite_score /\ ret.composite_score <= 1000)

C5_Witness ==
    /\ V2Called
    /\ ValidInputs(args)
    /\ args.prompt = Str(<<Rich>>)
    /\ ret.composite_score = 1000

\* r hundredths is x rounded to 2 decimal places: r is within half a hundredth
\* of the rational x
IsRounded2(r, x) ==
    LET h == Hundredths(x)
    IN  /\ 2 * (r * h.den - h.num) <= h.den
        /\ 2 * (h.num - r * h.den) <= h.den

\* 0.25*s + 0.25*c + 0.20*p + 0.15*e + 0.15*d for integers s, c, e, d and a
\* rational p, as the claim states it
ClaimedComposite(s, c, p, e, d) ==
    Rat((25 * s + 25 * c + 15 * e + 15 * d) * p.den + 20 * p.num, 100 * p.den)

\* C6: calculate_composite_score_v2 returns exactly the six entries; each
\* sub-score is its metric function on the call's own inputs, the composite is
\* 0.25*structure + 0.25*context + 0.20*productivity + 0.15*efficiency
\* + 0.15*diversity, and every value is rounded to 2 decimal places.
C6_CompositeEntries ==
    V2Called =>
        LET s == calculate_structure_score(args.prompt)
            c == calculate_context_score(args.prompt)
            p == calculate_productivity_score(args.total_lines, args.max_lines)
            e == calculate_efficiency_score(args.message_count)
            d == calculate_diversity_score(args.language_diversity)
        IN  /\ DOMAIN ret = { "structure_score", "context_score",
                              "productivity_score", "efficiency_score",
                              "diversity_score", "composite_score" }
            /\ ret.structure_score = 100 * s
            /\ ret.context_score = 100 * c
            /\ IsRounded2(ret.productivity_score, p)
            /\ ret.efficiency_score = 100 * e
            /\ ret.diversity_score = 100 * d
            /\ IsRounded2(ret.composite_score, ClaimedComposite(s, c, p, e, d))

C6_Witness ==
    /\ V2Called
    /\ args.total_lines = Given(1)
    /\ args.max_lines = 3
    /\ args.message_count = 100
    /\ args.language_diversity = 2
    /\ ret.productivity_score = 333
    /\ ret.efficiency_score = 300
    /\ ret.diversity_score = 600

\* C7: calculate_productivity_score and the productivity_score entry of
\* calculate_composite_score_v2 are in [0,10] for every integer total_lines
\* (negative and absent ones too) and every integer max_lines.
C7_ProductivityClamped ==
    /\ op = "calculate_productivity_score" =>
            (0 <= ret.num /\ ret.num <= 10 * ret.den)
    /\ V2Called =>
            (0 <= ret.productivity_score /\ ret.productivity_score <= 1000)

\* C8: if every sub-score of session A (the metric functions on its inputs) is
\* >= that of session B then composite_score(A) >= composite_score(B), and if
\* also structure, context, efficiency or diversity is strictly greater then
\* composite_score(A) > composite_score(B).
C8_CompositeOrders ==
    (V2Called /\ held # <<>>) =>
        LET a == held[1].args
            b == args
            sA == calculate_structure_score(a.prompt)
            sB == calculate_structure_score(b.prompt)
            cA == calculate_context_score(a.prompt)
            cB == calculate_context_score(b.prompt)
            pA == calculate_productivity_score(a.total_lines, a.max_lines)
            pB == calculate_productivity_score(b.total_lines, b.max_lines)
            eA == calculate_efficiency_score(a.message_count)
            eB == calculate_efficiency_score(b.message_count)
            dA == calculate_diversity_score(a.language_diversity)
            dB == calculate_diversity_score(b.language_diversity)
            allGE == sA >= sB /\ cA >= cB /\ RatLE(pB, pA) /\ eA >= eB /\ dA >= dB
            oneGT == sA > sB \/ cA > cB \/ eA > eB \/ dA > dB
        IN  /\ allGE => held[1].ret.composite_score >= ret.composite_score
            /\ (allGE /\ oneGT) =>
                    held[1].ret.composite_score > ret.composite_score

\* A has the same prompt, lines and languages as B and fewer messages
C8_Witness ==
    /\ V2Called
    /\ held # <<>>
    /\ held[1].args.prompt = args.prompt
    /\ held[1].args.total_lines = args.total_lines
    /\ held[1].args.max_lines = args.max_lines
    /\ held[1].args.language_diversity = args.language_diversity
    /\ held[1].args.message_count = 5
    /\ args.message_count = 50
    /\ held[1].ret.composite_score > ret.composite_score

----------------------------------------------------------------------------
(* The legacy scheme *)

\* the quality tiers, case by case
QualityTier(sensitive_count, language_diversity) ==
    IF sensitive_count = 0 /\ language_diversity >= 3 THEN 10
    ELSE IF sensitive_count = 0 /\ language_diversity = 2 THEN 8
    ELSE IF sensitive_count = 0 /\ language_diversity < 2 THEN 6
    ELSE IF sensitive_count # 0 /\ language_diversity >= 3 THEN 5
    ELSE 3

\* the largest total_lines among the rows of a query, a missing one counting 0
LargestTotalLines(rows) ==
    LET lines == { OrZero(rows[i].total_lines) : i \in 1 .. Len(rows) }
    IN  CHOOSE m \in lines : \A n \in lines : n <= m

\* 0.4*e + 0.3*c + 0.2*(t / max(1, max_lines) * 10) + 0.1*q for an efficiency e
\* and a clarity c given in hundredths
WeightedOfRounded(e, c, t, q, max_lines) ==
    LET m == IF max_lines >= 1 THEN max_lines ELSE 1
    IN  Rat((4 * e + 3 * c) * m + 2000 * t + 100 * q * m, 1000 * m)

\* the same sum for efficiency = code_count / user_prompt_count and
\* clarity = 100 / message_count, each 0 on a zero count, taken unrounded
WeightedOfExact(code_count, user_prompt_count, message_count, t, q, max_lines) ==
    LET m == IF max_lines >= 1 THEN max_lines ELSE 1
        u == IF user_prompt_count = 0 THEN 1 ELSE user_prompt_count
        k == IF message_count = 0 THEN 1 ELSE message_count
        cc == IF user_prompt_count = 0 THEN 0 ELSE code_count
        hundred == IF message_count = 0 THEN 0 ELSE 100
    IN  Rat(4 * cc * k * m + 3 * hundred * u * m + 20 * t * u * k
              + q * u * k * m,
            10 * u * k * m)

----------------------------------------------------------------------------
(* The legacy composite depends on the batch *)

\* the row of session id in a report
RowOf(report, id) ==
    CHOOSE r \in { report[i] : i \in 1 .. Len(report) } : r.session_id = id

\* a report is held, a later one has just been computed, and the largest
\* total_lines of the batch differs between the two
MaxLinesChanged ==
    /\ held # <<>>
    /\ op = "analyze_prompt_quality"
    /\ held[1].args.rows # <<>>
    /\ LargestTotalLines(held[1].args.rows) # LargestTotalLines(args.rows)

\* the sessions of the held report: their metrics are the same in the later one
HeldSessions == 1 .. Len(held[1].ret)

\* every row of the report is normalized by the largest total_lines of its batch
SameNormalizer ==
    op = "analyze_prompt_quality" =>
        \A i \in 1 .. Len(ret) :
            IsRounded2(ret[i].composite_score, WeightedOfRounded(
                OrZero(ret[i].efficiency_score), OrZero(ret[i].clarity_score),
                OrZero(ret[i].total_lines), ret[i].quality_score,
                LargestTotalLines(args.rows)))

\* C10 as stated: every session of a batch is normalized by the largest
\* total_lines of the batch, so whenever that largest value changes between two
\* reports the composite of every session with unchanged metrics changes.
C10_EveryCompositeChanges ==
    /\ SameNormalizer
    /\ MaxLinesChanged =>
         \A id \in HeldSessions :
            RowOf(ret, id).composite_score
              # RowOf(held[1].ret, id).composite_score

\* 0.2 * (t / max(1, m) * 10), the productivity term of the composite
ProductivityTerm(t, m) ==
    Rat(2 * t, IF m >= 1 THEN m ELSE 1)

\* C10, amended: every session of a batch is normalized by the largest
\* total_lines of the batch, so when that largest value grows between two
\* reports the composite of a session with unchanged metrics and a positive
\* total_lines does not rise, and falls when its productivity term falls by
\* more than 0.01; the composite of a session with total_lines 0 or missing
\* does not depend on the batch: both reports round the same weighted sum.
C10_BatchRelative ==
    /\ SameNormalizer
    /\ MaxLinesChanged =>
         LET old == LargestTotalLines(held[1].args.rows)
             new == LargestTotalLines(args.rows)
         IN  /\ new > old
             /\ \A id \in HeldSessions :
                LET before == RowOf(held[1].ret, id)
                    after == RowOf(ret, id)
                    t == OrZero(after.total_lines)
                IN  /\ after.total_lines = before.total_lines
                    /\ t > 0 =>
                         /\ after.composite_score <= before.composite_score
                         /\ RatLT(Rat(1, 100),
                                  Rat(2 * t * (new - old),
                                      Max(old, 1) * Max(new, 1)))
                              => after.composite_score < before.composite_score
                    /\ t = 0 =>
                         IsRounded2(after.composite_score, WeightedOfRounded(
                             OrZero(before.efficiency_score),
                             OrZero(before.clarity_score), 0,
                             before.quality_score, old))

\* session 1 (1 line) was alone in the batch and scored 13.6; a session of 4
\* lines is imported and session 1 scores 12.1
C10_Witness ==
    /\ MaxLinesChanged
    /\ Len(held[1].ret) = 1
    /\ held[1].ret[1].total_lines = Given(1)
    /\ held[1].ret[1].composite_score = 1360
    /\ Len(ret) = 2
    /\ LargestTotalLines(args.rows) = 4
    /\ RowOf(ret, 1).composite_score = 1210

----------------------------------------------------------------------------
(* The range of the legacy composite *)

\* C11: the legacy composite score of every session of a ranked batch lies in
\* [0, 10], whatever session metrics the Store supplies.
C11_LegacyCompositeRange ==
    op = "analyze_prompt_quality" =>
        \A i \in 1 .. Len(ret) :
            /\ 0 <= ret[i].composite_score
            /\ ret[i].composite_score <= 10 * 100

----------------------------------------------------------------------------
(* Best and worst prompts (analytics.py) *)

MaxLimit == 3

\* the limits a caller asks for
Limits == 0 .. MaxLimit

Min(a, b) == IF a <= b THEN a ELSE b

\* s[:stop] of Python
SliceTo(s, stop) ==
    LET n == Len(s)
        k == IF stop < 0 THEN Max(n + stop, 0) ELSE Min(stop, n)
    IN  SubSeq(s, 1, k)

\* s[start:] of Python
SliceFrom(s, start) ==
    LET n == Len(s)
        k == IF start < 0 THEN Max(n + start, 0) ELSE Min(start, n)
    IN  SubSeq(s, k + 1, n)

\* s[::-1]
Reversed(s) == [ i \in 1 .. Len(s) |-> s[Len(s) + 1 - i] ]

\* the lists PromptAnalytics.get_best_prompts can return: all_prompts[:limit]
get_best_prompts(rows, limit) ==
    { SliceTo(all_prompts, limit) : all_prompts \in analyze_prompt_quality(rows) }

\* the lists PromptAnalytics.get_worst_prompts can return:
\* all_prompts[-limit:][::-1]
get_worst_prompts(rows, limit) ==
    { Reversed(SliceFrom(all_prompts, 0 - limit)) :
        all_prompts \in analyze_prompt_quality(rows) }

GetBestPrompts ==
    /\ Idle
    /\ \E rows \in Batches, limit \in Limits :
        /\ op' = "PromptAnalytics.get_best_prompts"
        /\ args' = [ rows |-> rows, limit |-> limit ]
        /\ ret' \in get_best_prompts(rows, limit)
    /\ UNCHANGED <<held, store>>

GetWorstPrompts ==
    /\ Idle
    /\ \E rows \in Batches, limit \in Limits :
        /\ op' = "PromptAnalytics.get_worst_prompts"
        /\ args' = [ rows |-> rows, limit |-> limit ]
        /\ ret' \in get_worst_prompts(rows, limit)
    /\ UNCHANGED <<held, store>>

NextRanking ==
    \/ AnalyzeBatch
    \/ GetBestPrompts
    \/ GetWorstPrompts
    \/ Return

SpecRanking == Init /\ [][NextRanking]_vars

\* the first k records of a list, all of them when it has fewer
FirstRecords(s, k) ==
    [ i \in 1 .. (IF k <= Len(s) THEN k ELSE Len(s)) |-> s[i] ]

\* the last k records of a list (all when it has fewer), the last one first
LastRecordsReversed(s, k) ==
    [ i \in 1 .. (IF k <= Len(s) THEN k ELSE Len(s)) |-> s[Len(s) + 1 - i] ]

\* C12: analyze_prompt_quality returns the batch in non-increasing order of
\* composite_score; get_best_prompts(limit) is the first limit records of that
\* order and get_worst_prompts(limit) is its last limit records, lowest first.
C12_BestAndWorst ==
    /\ op = "analyze_prompt_quality" =>
         \A i \in 1 .. Len(ret) : \A j \in i .. Len(ret) :
            ret[i].composite_score >= ret[j].composite_score
    /\ op = "PromptAnalytics.get_best_prompts" =>
         \E all_prompts \in analyze_prompt_quality(args.rows) :
            ret = FirstRecords(all_prompts, args.limit)
    /\ op = "PromptAnalytics.get_worst_prompts" =>
         \E all_prompts \in analyze_prompt_quality(args.rows) :
            ret = LastRecordsReversed(all_prompts, args.limit)

----------------------------------------------------------------------------
(* The prompt coach (prompt_coach.py): the problems of a prompt *)

\* each pattern of the coach is the set of fragments it matches
_has_file_path(prompt) ==
    IF Falsy(prompt) THEN FALSE
    ELSE Search({ "LoginForm.tsx", Rich }, prompt.toks)

_has_error_keywords(prompt) ==
    IF Falsy(prompt) THEN FALSE
    ELSE Search({ "error", "TypeError:", Rich }, prompt.toks)

_has_error_message(prompt) ==
    IF Falsy(prompt) THEN FALSE ELSE Search({ "TypeError:" }, prompt.toks)

\* the first pattern matches at the start of the stripped prompt, the second
\* one anywhere
_is_conversational(prompt) ==
    IF Falsy(prompt) THEN FALSE
    ELSE \/ Head(prompt.toks) \in { "ok" }
         \/ Search({ "geugeo" }, prompt.toks)

\* _problem(key, severity, lang): the issue and its severity; the three texts
\* of a problem come from the translator
_problem(key, severity) == [ issue |-> key, severity |-> severity ]

\* identify_problems stopping at the first problem that matches
identify_problems_first(prompt, scores) ==
    IF scores.structure < 2 THEN << _problem("no_target", "high") >>
    ELSE IF scores.context < 2 THEN << _problem("no_context", "high") >>
    ELSE IF _is_conversational(prompt)
         THEN << _problem("conversational", "medium") >>
    ELSE IF ~ _has_file_path(prompt) THEN << _problem("no_file", "medium") >>
    ELSE IF _has_error_keywords(prompt) /\ ~ _has_error_message(prompt)
         THEN << _problem("no_error", "medium") >>
    ELSE << >>

\* scores holds structure and context in points
identify_problems(prompt, scores) ==
    LET p1 == IF scores.structure < 2
              THEN << _problem("no_target", "high") >> ELSE << >>
        p2 == IF scores.context < 2
              THEN Append(p1, _problem("no_context", "high")) ELSE p1
        p3 == IF _is_conversational(prompt)
              THEN Append(p2, _problem("conversational", "medium")) ELSE p2
        p4 == IF ~ _has_file_path(prompt)
              THEN Append(p3, _problem("no_file", "medium")) ELSE p3
        p5 == IF _has_error_keywords(prompt) /\ ~ _has_error_message(prompt)
              THEN Append(p4, _problem("no_error", "medium")) ELSE p4
    IN  p5

\* the scores a caller hands to identify_problems, in points
ScoreValues == { 0, 1, 2, 4, 10 }

IdentifyProblems ==
    /\ Idle
    /\ \E prompt \in Prompts, structure \in ScoreValues, context \in ScoreValues :
        /\ op' = "identify_problems"
        /\ args' = [ prompt |-> prompt,
                     scores |-> [ structure |-> structure, context |-> context ] ]
        /\ ret' = identify_problems(
                    prompt, [ structure |-> structure, context |-> context ])
    /\ UNCHANGED <<held, store>>

----------------------------------------------------------------------------
(* The prompt coach: suggestions *)

MaxProblems == 3
MaxHistory == 3

\* what analyze_prompt_for_pattern can answer for a prompt of the history: no
\* template, or a template with a quality estimate (hundredths)
PatternAnalyses ==
    { [ template |-> "", quality_score |-> 0 ],
      [ template |-> "[FILE] [TASK]", quality_score |-> 90 ] }

\* _suggestion_from_issue with a suggestion for no_target as well
_suggestion_from_issue_target(issue_key) ==
    IF issue_key = "no_file"
    THEN << [ type |-> "generic", of |-> "no_file", confidence |-> 70 ] >>
    ELSE IF issue_key = "no_context"
    THEN << [ type |-> "generic", of |-> "no_context", confidence |-> 60 ] >>
    ELSE IF issue_key = "no_error"
    THEN << [ type |-> "generic", of |-> "no_error", confidence |-> 60 ] >>
    ELSE IF issue_key = "no_target"
    THEN << [ type |-> "generic", of |-> "no_target", confidence |-> 60 ] >>
    ELSE << >>

\* _suggestion_from_issue(issue_key, lang): <<>> is None; the title comes from
\* the translator, the template and the example are fixed texts of the issue
_suggestion_from_issue(issue_key) ==
    IF issue_key = "no_file"
    THEN << [ type |-> "generic", of |-> "no_file", confidence |-> 70 ] >>
    ELSE IF issue_key = "no_context"
    THEN << [ type |-> "generic", of |-> "no_context", confidence |-> 60 ] >>
    ELSE IF issue_key = "no_error"
    THEN << [ type |-> "generic", of |-> "no_error", confidence |-> 60 ] >>
    ELSE << >>

\* the loop over the problems: it stops once there are 3 suggestions
RECURSIVE FromProblems(_, _)
FromProblems(suggestions, problems) ==
    IF problems = << >> \/ Len(suggestions) >= 3 THEN suggestions
    ELSE FromProblems(
             suggestions \o _suggestion_from_issue(Head(problems).issue),
             Tail(problems))

\* the loop over user_best[:2] without the test of the template
FromHistory_unfiltered(user_best, analyses) ==
    LET made(i) == [ type |-> "user_pattern", of |-> analyses[i].template,
                     example |-> user_best[i].first_prompt,
                     confidence |-> analyses[i].quality_score ]
        s1 == IF Len(user_best) >= 1 THEN << made(1) >> ELSE << >>
    IN  IF Len(user_best) >= 2 THEN Append(s1, made(2)) ELSE s1

\* the loop over user_best[:2]; analyses[i] is what analyze_prompt_for_pattern
\* answers for user_best[i]
FromHistory(user_best, analyses) ==
    LET made(i) == [ type |-> "user_pattern", of |-> analyses[i].template,
                     example |-> user_best[i].first_prompt,
                     confidence |-> analyses[i].quality_score ]
        s1 == IF Len(user_best) >= 1 /\ analyses[1].template # ""
              THEN << made(1) >> ELSE << >>
    IN  IF Len(user_best) >= 2 /\ analyses[2].template # ""
        THEN Append(s1, made(2)) ELSE s1

\* generate_suggestions without the fallback suggestion
generate_suggestions_bare(prompt, problems, user_best, analyses) ==
    SliceTo(FromProblems(FromHistory(user_best, analyses), problems), 3)

generate_suggestions(prompt, problems, user_best, analyses) ==
    LET suggestions == FromProblems(FromHistory(user_best, analyses), problems)
        final == IF suggestions = << >>
                 THEN << [ type |-> "generic", of |-> "prompt",
                           template |-> prompt, example |-> prompt,
                           confidence |-> 50 ] >>
                 ELSE suggestions
    IN  SliceTo(final, 3)

\* the prompts handed to the coach
CoachPrompts ==
    { None, Str(<< >>), Str(<< "fix" >>), Str(<< "ok", "error" >>),
      Str(<< "TypeError:", "LoginForm.tsx" >>), Str(<< Rich >>),
      Str(<< "TypeError:", "TypeError:" >>), Str(<< "z{500}", "ok" >>) }

\* problems lists: the issues with a suggestion of their own and one without
ProblemLists ==
    SeqsUpTo({ _problem("no_target", "high"), _problem("no_context", "high"),
               _problem("conversational", "medium"),
               _problem("no_file", "medium"), _problem("no_error", "medium") },
             MaxProblems)

\* the best prompts of the user: with a file path, with an error message, with
\* neither
Histories ==
    SeqsUpTo({ [ first_prompt |-> Str(<< "LoginForm.tsx" >>) ],
               [ first_prompt |-> Str(<< "TypeError:" >>) ],
               [ first_prompt |-> Str(<< "fix" >>) ] },
             MaxHistory)

GenerateSuggestions ==
    /\ Idle
    /\ \E prompt \in { None, Str(<< "fix" >>) }, problems \in ProblemLists,
          user_best \in Histories, analyses \in [ 1 .. 2 -> PatternAnalyses ] :
        /\ op' = "generate_suggestions"
        /\ args' = [ prompt |-> prompt, problems |-> problems,
                     user_best |-> user_best, analyses |-> analyses ]
        /\ ret' = generate_suggestions(prompt, problems, user_best, analyses)
    /\ UNCHANGED <<held, store>>

----------------------------------------------------------------------------
(* The prompt coach: expected impact and user insights *)

\* round(x) of Python: the nearest integer, an exact tie going to the even one
RoundHalfEven(x) ==
    LET f == x.num \div x.den
        r == x.num - f * x.den
    IN  IF 2 * r < x.den THEN f
        ELSE IF 2 * r > x.den THEN f + 1
        ELSE IF f % 2 = 0 THEN f ELSE f + 1

\* _percent_change: "N/A", or the sign and int(change * 100); int() cuts
\* towards zero
_percent_change(current, expected, lower_is_better) ==
    IF current.num = 0 THEN [ text |-> "N/A" ]
    ELSE LET d == IF lower_is_better
                  THEN current.num * expected.den - expected.num * current.den
                  ELSE expected.num * current.den - current.num * expected.den
             n == 100 * d
             m == current.num * expected.den
         IN  [ sign |-> IF d >= 0 THEN "+" ELSE "",
               percent |-> IF n >= 0 THEN n \div m ELSE 0 - ((0 - n) \div m) ]

\* calculate_expected_impact with the improvement ratio left as it comes
calculate_expected_impact_unclamped(current_scores) ==
    LET structure == current_scores.structure
        context == current_scores.context
        target_structure == Min(10, Max(7, structure + 3))
        target_context == Min(10, Max(7, context + 3))
        ratio20 == target_structure + target_context - structure - context
        expected_messages == Max(3, RoundHalfEven(Rat(9 * (20 - ratio20), 20)))
        expected_code == Max(1, RoundHalfEven(Rat(2 * (20 + 2 * ratio20), 20)))
        expected_success == Min(95, 35 + 3 * ratio20)
    IN  [ messages |->
            [ current |-> 9, expected |-> expected_messages,
              improvement |->
                _percent_change(RatInt(9), RatInt(expected_messages), TRUE) ],
          code_generation |->
            [ current |-> 2, expected |-> expected_code,
              improvement |->
                _percent_change(RatInt(2), RatInt(expected_code), FALSE) ],
          success_rate |->
            [ current |-> 35, expected |-> expected_success,
              improvement |->
                _percent_change(Rat(35, 100), Rat(expected_success, 100),
                                FALSE) ] ]

\* calculate_expected_impact for scores in points; the improvement ratio is
\* held in twentieths and the success rates in hundredths
calculate_expected_impact(current_scores) ==
    LET structure == current_scores.structure
        context == current_scores.context
        target_structure == Min(10, Max(7, structure + 3))
        target_context == Min(10, Max(7, context + 3))
        ratio20 == Min(14, Max(2, target_structure + target_context
                                    - structure - context))
        expected_messages == Max(3, RoundHalfEven(Rat(9 * (20 - ratio20), 20)))
        expected_code == Max(1, RoundHalfEven(Rat(2 * (20 + 2 * ratio20), 20)))
        expected_success == Min(95, 35 + 3 * ratio20)
    IN  [ messages |->
            [ current |-> 9, expected |-> expected_messages,
              improvement |->
                _percent_change(RatInt(9), RatInt(expected_messages), TRUE) ],
          code_generation |->
            [ current |-> 2, expected |-> expected_code,
              improvement |->
                _percent_change(RatInt(2), RatInt(expected_code), FALSE) ],
          success_rate |->
            [ current |-> 35, expected |-> expected_success,
              improvement |->
                _percent_change(Rat(35, 100), Rat(expected_success, 100),
                                FALSE) ] ]

\* _ratio(prompts, predicate) as a fraction; predicate is the name of
\* _has_file_path or of _has_error_message
_ratio(prompts, predicate) ==
    LET holds(text) == IF predicate = "_has_file_path"
                       THEN _has_file_path(text) ELSE _has_error_message(text)
        matches == Cardinality({ i \in 1 .. Len(prompts) :
                                   holds(prompts[i].first_prompt) })
    IN  IF prompts = << >> THEN RatInt(0) ELSE Rat(matches, Len(prompts))

\* generate_user_insights with the two thresholds exchanged
generate_user_insights_swapped(user_best) ==
    IF user_best = << >> THEN << >>
    ELSE LET file_ratio == _ratio(user_best, "_has_file_path")
             error_ratio == _ratio(user_best, "_has_error_message")
             insight(about, ratio, atleast) ==
                IF RatLE(atleast, ratio)
                THEN [ type |-> "strength", about |-> about,
                       value |-> (100 * ratio.num) \div ratio.den ]
                ELSE [ type |-> "weakness", about |-> about ]
         IN  << insight("file", file_ratio, Rat(4, 10)),
                insight("error", error_ratio, Rat(6, 10)) >>

\* generate_user_insights; value is int(ratio * 100) of the message
generate_user_insights(user_best) ==
    IF user_best = << >> THEN << >>
    ELSE LET file_ratio == _ratio(user_best, "_has_file_path")
             error_ratio == _ratio(user_best, "_has_error_message")
             insight(about, ratio, atleast) ==
                IF RatLE(atleast, ratio)
                THEN [ type |-> "strength", about |-> about,
                       value |-> (100 * ratio.num) \div ratio.den ]
                ELSE [ type |-> "weakness", about |-> about ]
         IN  << insight("file", file_ratio, Rat(6, 10)),
                insight("error", error_ratio, Rat(4, 10)) >>

----------------------------------------------------------------------------
(* The prompt coach: analyze *)

\* a call returns a value or raises an exception
Return_(value) == [ kind |-> "return", value |-> value ]
Raise(exc) == [ kind |-> "raise", exc |-> exc ]

\* a call of PromptAnalytics.get_best_prompts with the given keywords; its
\* parameters are project_name and limit, and a keyword it does not have is a
\* TypeError, before the Store is read
CallGetBestPrompts(keywords, rows, limit) ==
    IF ~ (keywords \subseteq { "project_name", "limit" })
    THEN { Raise("TypeError") }
    ELSE { Return_(best) : best \in get_best_prompts(rows, limit) }

\* _get_user_best_prompts without its try/except: what the call gives
_get_user_best_prompts_bare(rows) ==
    CallGetBestPrompts({ "limit", "strict_mode" }, rows, 5)

\* _get_user_best_prompts: the outcomes of the lookup, an exception giving []
_get_user_best_prompts(rows) ==
    { IF r.kind = "raise" THEN Return_(<< >>) ELSE r :
        r \in CallGetBestPrompts({ "limit", "strict_mode" }, rows, 5) }

\* what detect_installed_extensions followed by suggest_extension_command
\* gives in one analyze call: a suggestion, None (<<>>) or an exception
ExtensionAnswers ==
    { Return_(<< >>), Return_(<< "/extension" >>), Raise("OSError") }

\* analyze(prompt, detect_extensions, include_history) over the sessions rows
\* of the Store; lang is what detect_language answers, analyses what
\* analyze_prompt_for_pattern answers for the history, extension what the two
\* extension functions answer. The outcomes: a CoachingResult, or the
\* exception that leaves analyze
analyze(prompt, detect_extensions, include_history, lang, rows, analyses, extension) ==
    LET scores == [ structure |-> calculate_structure_score(prompt),
                    context |-> calculate_context_score(prompt) ]
        problems == identify_problems(prompt, scores)
        lookups == IF include_history THEN _get_user_best_prompts(rows)
                   ELSE { Return_(<< >>) }
        rest(user_best) ==
            IF detect_extensions /\ extension.kind = "raise" THEN extension
            ELSE [ kind |-> "CoachingResult",
                   language |-> lang,
                   original_prompt |-> prompt,
                   scores |-> scores,
                   problems |-> problems,
                   suggestions |->
                     generate_suggestions(prompt, problems, user_best, analyses),
                   extension_suggestion |->
                     IF detect_extensions THEN extension.value ELSE << >>,
                   expected_impact |-> calculate_expected_impact(scores),
                   user_insights |-> generate_user_insights(user_best) ]
    IN  { IF l.kind = "raise" THEN l ELSE rest(l.value) : l \in lookups }

Analyze ==
    /\ Idle
    /\ \E prompt \in CoachPrompts, detect_extensions \in BOOLEAN,
          include_history \in BOOLEAN, lang \in { "ko", "en" }, rows \in Batches,
          analyses \in [ 1 .. 2 -> PatternAnalyses ],
          extension \in ExtensionAnswers :
        /\ include_history \/ (rows = << >> /\ analyses[1].template = ""
                                 /\ analyses[2].template = "")
        /\ detect_extensions \/ extension = Return_(<< >>)
        /\ op' = "analyze"
        /\ args' = [ prompt |-> prompt, detect_extensions |-> detect_extensions,
                     include_history |-> include_history, lang |-> lang,
                     rows |-> rows, analyses |-> analyses,
                     extension |-> extension ]
        /\ ret' \in analyze(prompt, detect_extensions, include_history, lang,
                            rows, analyses, extension)
    /\ UNCHANGED <<held, store>>

CalculateExpectedImpact ==
    /\ Idle
    /\ \E structure \in 0 .. 10, context \in 0 .. 10 :
        /\ op' = "calculate_expected_impact"
        /\ args' = [ current_scores |->
                       [ structure |-> structure, context |-> context ] ]
        /\ ret' = calculate_expected_impact(
                    [ structure |-> structure, context |-> context ])
    /\ UNCHANGED <<held, store>>

GenerateUserInsights ==
    /\ Idle
    /\ \E user_best \in Histories :
        /\ op' = "generate_user_insights"
        /\ args' = [ user_best |-> user_best ]
        /\ ret' = generate_user_insights(user_best)
    /\ UNCHANGED <<held, store>>

NextCoach ==
    \/ IdentifyProblems
    \/ GenerateSuggestions
    \/ Analyze
    \/ CalculateExpectedImpact
    \/ GenerateUserInsights
    \/ Return

SpecCoach == Init /\ [][NextCoach]_vars

\* the issues identify_problems can report, in the order of its checks
ProblemOrder ==
    << "no_target", "no_context", "conversational", "no_file", "no_error" >>

\* the severity the claim gives each issue
SeverityOf(issue) ==
    IF issue \in { "no_target", "no_context" } THEN "high" ELSE "medium"

\* the check of an issue matches the arguments of the call
Matches(issue) ==
    CASE issue = "no_target" -> args.scores.structure < 2
      [] issue = "no_context" -> args.scores.context < 2
      [] issue = "conversational" -> _is_conversational(args.prompt)
      [] issue = "no_file" -> ~ _has_file_path(args.prompt)
      [] issue = "no_error" -> /\ _has_error_keywords(args.prompt)
                               /\ ~ _has_error_message(args.prompt)

\* C13: identify_problems reports exactly the issues whose check matches, each
\* once, in the fixed order no_target, no_context, conversational, no_file,
\* no_error, with severity high for the first two and medium for the others;
\* so a context score below 2.0 gives a non-empty list that holds no_context.
C13_IdentifyProblems ==
    op = "identify_problems" =>
        /\ [ i \in 1 .. Len(ret) |-> ret[i].issue ]
             = SelectSeq(ProblemOrder, Matches)
        /\ \A i \in 1 .. Len(ret) : ret[i].severity = SeverityOf(ret[i].issue)
        /\ args.scores.context < 2 =>
             /\ ret # << >>
             /\ \E i \in 1 .. Len(ret) : ret[i].issue = "no_context"

\* a filler prompt that names an error without an error message or a file, with
\* low scores: all five problems
C13_Witness ==
    /\ op = "identify_problems"
    /\ args.prompt = Str(<< "ok", "error" >>)
    /\ Len(ret) = 5
    /\ ret[2].issue = "no_context"
    /\ ret[5].issue = "no_error"

\* C14: for every prompt, problems list and history, generate_suggestions, and
\* so analyze, returns between 1 and 3 suggestions.
C14_SuggestionCount ==
    /\ op = "generate_suggestions" => (1 <= Len(ret) /\ Len(ret) <= 3)
    /\ (op = "analyze" /\ ret.kind = "CoachingResult") =>
         (1 <= Len(ret.suggestions) /\ Len(ret.suggestions) <= 3)

\* two patterns of the history and three problems with a suggestion of their
\* own: the loop over the problems stops at 3 suggestions
C14_Witness ==
    /\ op = "generate_suggestions"
    /\ Len(args.problems) = 3
    /\ \A i \in 1 .. 3 : args.problems[i].issue # "no_target"
    /\ Len(ret) = 3
    /\ ret[1].type = "user_pattern"
    /\ ret[2].type = "user_pattern"
    /\ ret[3].type = "generic"

----------------------------------------------------------------------------
(* C15 - C17: the optional collaborators of analyze *)

\* the history lookup of this call failed
LookupFails(rows) == \E r \in _get_user_best_prompts_bare(rows) : r.kind = "raise"

\* the extension step of this call failed
ExtensionFails == args.detect_extensions /\ args.extension.kind = "raise"

CoachingResultFields ==
    { "kind", "language", "original_prompt", "scores", "problems",
      "suggestions", "extension_suggestion", "expected_impact",
      "user_insights" }

\* C15: when include_history is true and get_best_prompts fails, analyze does
\* not propagate that exception: the history is empty, and the call returns a
\* complete CoachingResult with no user_pattern suggestion and no user insight
\* (the only exception that can leave the call is one of the extension step).
C15_HistoryFailSoft ==
    (op = "analyze" /\ args.include_history /\ LookupFails(args.rows)) =>
        /\ ret.kind = "raise" => (ExtensionFails /\ ret = args.extension)
        /\ ret.kind = "CoachingResult" =>
             /\ DOMAIN ret = CoachingResultFields
             /\ \A i \in 1 .. Len(ret.suggestions) :
                    ret.suggestions[i].type # "user_pattern"
             /\ ret.user_insights = << >>

\* a failed lookup over a Store that holds sessions, the rest of the result
\* being there: the extension suggestion and the problems of the prompt
C15_Witness ==
    /\ op = "analyze"
    /\ args.include_history
    /\ Len(args.rows) = 2
    /\ LookupFails(args.rows)
    /\ args.prompt = Str(<< "fix" >>)
    /\ ret.kind = "CoachingResult"
    /\ ret.user_insights = << >>
    /\ ret.extension_suggestion = << "/extension" >>
    /\ Len(ret.problems) = 2
    /\ Len(ret.suggestions) = 2

\* C16: when detect_extensions is true and detect_installed_extensions or
\* suggest_extension_command fails, the failure is caught: analyze returns a
\* CoachingResult whose extension_suggestion is absent.
C16_ExtensionFailSoft ==
    (op = "analyze" /\ ExtensionFails) =>
        (ret.kind = "CoachingResult" /\ ret.extension_suggestion = << >>)

\* C17: get_best_prompts of the collaborator accepts project, limit,
\* strict_mode and min_quality, so that with include_history and ranked
\* sessions in the Store the history of analyze is the (at most 5) best
\* prompts, seen in the user insights, rather than an empty list.
C17_HistoryFromStore ==
    (op = "analyze" /\ args.include_history /\ args.rows # << >>) =>
        /\ \A r \in CallGetBestPrompts(
                      { "project_name", "limit", "strict_mode", "min_quality" },
                      args.rows, 5) : r.kind = "return"
        /\ ret.kind = "CoachingResult" =>
              \E best \in get_best_prompts(args.rows, 5) :
                  ret.user_insights = generate_user_insights(best)

----------------------------------------------------------------------------
(* Concurrent analyze calls on one PromptCoach *)

\* In this specification two analyze calls run at once, one statement at a
\* time each: args[c] holds the arguments of call c and what the collaborators
\* answer it, held[c] its local variables and the statement it is at, ret[c]
\* its outcome; held[c].steps lists the statements the call has run and
\* held[c].calls the optional collaborators it has called. A PromptCoach has
\* the one field self.analytics, set in __init__ and never assigned again, so
\* a call has nothing but its locals to write to.

\* the local variables of a call that has not run a statement yet
NewFrame ==
    [ pc |-> "detect_language", lang |-> "", scores |-> << >>,
      problems |-> << >>, user_best |-> << >>, suggestions |-> << >>,
      extension_suggestion |-> << >>, expected_impact |-> << >>,
      user_insights |-> << >>, result |-> [ kind |-> "pending" ],
      steps |-> << >>, calls |-> << >> ]

\* one statement of analyze in call c with every call's locals shared: the
\* scores are read from where the other call left them
analyze_step_shared(frames, c, inputs) ==
    LET frame == frames[c]
        other == frames[3 - c]
        scores == IF other.scores # << >> THEN other.scores ELSE frame.scores
    IN  IF frame.pc = "detect_language"
        THEN { [ frame EXCEPT !.steps = Append(@, frame.pc),
                   !.pc = "scores", !.lang = inputs.lang ] }
        ELSE IF frame.pc = "scores"
        THEN { [ frame EXCEPT !.steps = Append(@, frame.pc),
                   !.pc = "identify_problems", !.scores =
                   [ structure |-> calculate_structure_score(inputs.prompt),
                     context |-> calculate_context_score(inputs.prompt) ] ] }
        ELSE IF frame.pc = "identify_problems"
        THEN { [ frame EXCEPT !.steps = Append(@, frame.pc),
                   !.pc = "history", !.problems =
                   identify_problems(inputs.prompt, scores) ] }
        ELSE IF frame.pc = "history"
        THEN { IF l.kind = "raise"
               THEN [ frame EXCEPT !.steps = Append(@, frame.pc),
                        !.calls = Append(@, "analytics"),
                        !.pc = "done", !.result = l ]
               ELSE [ frame EXCEPT !.steps = Append(@, frame.pc),
                        !.calls = IF inputs.include_history
                                  THEN Append(@, "analytics") ELSE @,
                        !.pc = "generate_suggestions",
                        !.user_best = l.value ] :
                 l \in IF inputs.include_history
                       THEN _get_user_best_prompts(inputs.rows)
                       ELSE { Return_(<< >>) } }
        ELSE IF frame.pc = "generate_suggestions"
        THEN { [ frame EXCEPT !.steps = Append(@, frame.pc),
                   !.pc = "extensions", !.suggestions =
                   generate_suggestions(inputs.prompt, frame.problems,
                                        frame.user_best, inputs.analyses) ] }
        ELSE IF frame.pc = "extensions"
        THEN { IF inputs.detect_extensions /\ inputs.extension.kind = "raise"
               THEN [ frame EXCEPT !.steps = Append(@, frame.pc),
                        !.calls = Append(@, "extensions"),
                        !.pc = "done", !.result = inputs.extension ]
               ELSE [ frame EXCEPT !.steps = Append(@, frame.pc),
                        !.calls = IF inputs.detect_extensions
                                  THEN Append(@, "extensions") ELSE @,
                        !.pc = "expected_impact",
                        !.extension_suggestion =
                          IF inputs.detect_extensions
                          THEN inputs.extension.value ELSE << >> ] }
        ELSE IF frame.pc = "expected_impact"
        THEN { [ frame EXCEPT !.steps = Append(@, frame.pc),
                   !.pc = "user_insights", !.expected_impact =
                   calculate_expected_impact(scores) ] }
        ELSE IF frame.pc = "user_insights"
        THEN { [ frame EXCEPT !.steps = Append(@, frame.pc),
                   !.pc = "return", !.user_insights =
                   generate_user_insights(frame.user_best) ] }
        ELSE { [ frame EXCEPT !.steps = Append(@, frame.pc),
                   !.pc = "done", !.result =
                   [ kind |-> "CoachingResult",
                     language |-> frame.lang,
                     original_prompt |-> inputs.prompt,
                     scores |-> scores,
                     problems |-> frame.problems,
                     suggestions |-> frame.suggestions,
                     extension_suggestion |-> frame.extension_suggestion,
                     expected_impact |-> frame.expected_impact,
                     user_insights |-> frame.user_insights ] ] }

\* one statement of analyze in call c: the frames that can follow frames[c].
\* Every statement reads the arguments and the locals of its own call only
analyze_step(frames, c, inputs) ==
    LET frame == frames[c]
    IN  IF frame.pc = "detect_language"
        THEN { [ frame EXCEPT !.steps = Append(@, frame.pc),
                   !.pc = "scores", !.lang = inputs.lang ] }
        ELSE IF frame.pc = "scores"
        THEN { [ frame EXCEPT !.steps = Append(@, frame.pc),
                   !.pc = "identify_problems", !.scores =
                   [ structure |-> calculate_structure_score(inputs.prompt),
                     context |-> calculate_context_score(inputs.prompt) ] ] }
        ELSE IF frame.pc = "identify_problems"
        THEN { [ frame EXCEPT !.steps = Append(@, frame.pc),
                   !.pc = "history", !.problems =
                   identify_problems(inputs.prompt, frame.scores) ] }
        ELSE IF frame.pc = "history"
        THEN { IF l.kind = "raise"
               THEN [ frame EXCEPT !.steps = Append(@, frame.pc),
                        !.calls = Append(@, "analytics"),
                        !.pc = "done", !.result = l ]
               ELSE [ frame EXCEPT !.steps = Append(@, frame.pc),
                        !.calls = IF inputs.include_history
                                  THEN Append(@, "analytics") ELSE @,
                        !.pc = "generate_suggestions",
                        !.user_best = l.value ] :
                 l \in IF inputs.include_history
                       THEN _get_user_best_prompts(inputs.rows)
                       ELSE { Return_(<< >>) } }
        ELSE IF frame.pc = "generate_suggestions"
        THEN { [ frame EXCEPT !.steps = Append(@, frame.pc),
                   !.pc = "extensions", !.suggestions =
                   generate_suggestions(inputs.prompt, frame.problems,
                                        frame.user_best, inputs.analyses) ] }
        ELSE IF frame.pc = "extensions"
        THEN { IF inputs.detect_extensions /\ inputs.extension.kind = "raise"
               THEN [ frame EXCEPT !.steps = Append(@, frame.pc),
                        !.calls = Append(@, "extensions"),
                        !.pc = "done", !.result = inputs.extension ]
               ELSE [ frame EXCEPT !.steps = Append(@, frame.pc),
                        !.calls = IF inputs.detect_extensions
                                  THEN Append(@, "extensions") ELSE @,
                        !.pc = "expected_impact",
                        !.extension_suggestion =
                          IF inputs.detect_extensions
                          THEN inputs.extension.value ELSE << >> ] }
        ELSE IF frame.pc = "expected_impact"
        THEN { [ frame EXCEPT !.steps = Append(@, frame.pc),
                   !.pc = "user_insights", !.expected_impact =
                   calculate_expected_impact(frame.scores) ] }
        ELSE IF frame.pc = "user_insights"
        THEN { [ frame EXCEPT !.steps = Append(@, frame.pc),
                   !.pc = "return", !.user_insights =
                   generate_user_insights(frame.user_best) ] }
        ELSE { [ frame EXCEPT !.steps = Append(@, frame.pc),
                   !.pc = "done", !.result =
                   [ kind |-> "CoachingResult",
                     language |-> frame.lang,
                     original_prompt |-> inputs.prompt,
                     scores |-> frame.scores,
                     problems |-> frame.problems,
                     suggestions |-> frame.suggestions,
                     extension_suggestion |-> frame.extension_suggestion,
                     expected_impact |-> frame.expected_impact,
                     user_insights |-> frame.user_insights ] ] }

\* the arguments of a concurrent call and the answers it gets
ConcurrentInputs ==
    LET answered ==
          { [ prompt |-> prompt, detect_extensions |-> detect_extensions,
              include_history |-> include_history, lang |-> "en",
              rows |-> rows,
              analyses |-> [ i \in 1 .. 2 |-> [ template |-> "",
                                                quality_score |-> 0 ] ],
              extension |-> extension ] :
              prompt \in { Str(<< "fix" >>),
                           Str(<< "TypeError:", "LoginForm.tsx" >>) },
              detect_extensions \in BOOLEAN, include_history \in BOOLEAN,
              rows \in { b \in Batches : Len(b) <= 1 /\ \A i \in 1 .. Len(b) :
                                            b[i].message_count = 1 },
              extension \in ExtensionAnswers }
    IN  { i \in answered : i.detect_extensions \/ i.extension = Return_(<< >>) }

StartAnalyzeCalls ==
    /\ Idle
    /\ \E first \in ConcurrentInputs, second \in ConcurrentInputs :
        /\ op' = "concurrent analyze"
        /\ args' = << first, second >>
        /\ held' = << NewFrame, NewFrame >>
        /\ ret' = << NewFrame.result, NewFrame.result >>
    /\ UNCHANGED store

AnalyzeStep ==
    /\ op = "concurrent analyze"
    /\ \E c \in 1 .. 2 :
        /\ held[c].pc # "done"
        /\ \E frame \in analyze_step(held, c, args[c]) :
            /\ held' = [ held EXCEPT ![c] = frame ]
            /\ ret' = [ ret EXCEPT ![c] = frame.result ]
    /\ UNCHANGED <<op, args, store>>

ReturnBoth ==
    /\ op = "concurrent analyze"
    /\ \A c \in 1 .. 2 : held[c].pc = "done"
    /\ op' = "none"
    /\ args' = <<>>
    /\ ret' = <<>>
    /\ held' = <<>>
    /\ UNCHANGED store

NextConcurrent == StartAnalyzeCalls \/ AnalyzeStep \/ ReturnBoth

SpecConcurrent == Init /\ [][NextConcurrent]_vars

\* what call c returns when it runs alone
Alone(c) ==
    analyze(args[c].prompt, args[c].detect_extensions, args[c].include_history,
            args[c].lang, args[c].rows, args[c].analyses, args[c].extension)

\* C18: no component retains cross-call state: under any interleaving of two
\* concurrent analyze calls each call returns the result it would return when
\* run alone, a result that depends on its arguments and on the answers of
\* its collaborators only, so that two calls with identical inputs return
\* identical results.
C18_CallsIndependent ==
    op = "concurrent analyze" =>
        /\ \A c \in 1 .. 2 : held[c].pc = "done" => ret[c] \in Alone(c)
        /\ (args[1] = args[2] /\ \A c \in 1 .. 2 : held[c].pc = "done") =>
             ret[1] = ret[2]

\* the first call has returned its result while the second, given another
\* prompt, is in the middle of its statements
C18_Witness ==
    /\ op = "concurrent analyze"
    /\ args[1].prompt # args[2].prompt
    /\ held[1].pc = "done"
    /\ ret[1].kind = "CoachingResult"
    /\ ret[1] \in Alone(1)
    /\ held[2].pc = "extensions"
    /\ held[2].problems # ret[1].problems

----------------------------------------------------------------------------
(* The tool gateway (mcp_server.py) *)

\* In this specification a call is one tool of the gateway. rows are the
\* sessions the Store holds, all of the project "front"; the queries of
\* PromptAnalytics select with WHERE p.name = ?, so they see rows for the
\* project "front" and nothing for another project or for None. The outcome
\* of a tool is Return_(result) or Raise(exception); the guidance message is a
\* key of the result that is there or not.

\* the suggestions of score_prompt without the entry for a good prompt
score_prompt_quiet(prompt) ==
    LET structure == calculate_structure_score(prompt)
        context == calculate_context_score(prompt)
        s1 == IF structure < 4 THEN << "goal" >> ELSE << >>
        s2 == IF structure < 6 THEN Append(s1, "specific") ELSE s1
        s3 == IF context < 2 THEN Append(s2, "file") ELSE s2
        s4 == IF context < 4 THEN Append(s3, "technology") ELSE s3
        s5 == IF StrLen(prompt.toks) < 20 THEN Append(s4, "details") ELSE s4
    IN  [ structure_score |-> structure, context_score |-> context,
          combined_score |-> structure + context, suggestions |-> s5 ]

\* score_prompt(prompt) for a str; the scores are in points and a suggestion
\* is named by what it asks for
score_prompt(prompt) ==
    LET structure == calculate_structure_score(prompt)
        context == calculate_context_score(prompt)
        s1 == IF structure < 4 THEN << "goal" >> ELSE << >>
        s2 == IF structure < 6 THEN Append(s1, "specific") ELSE s1
        s3 == IF context < 2 THEN Append(s2, "file") ELSE s2
        s4 == IF context < 4 THEN Append(s3, "technology") ELSE s3
        s5 == IF StrLen(prompt.toks) < 20 THEN Append(s4, "details") ELSE s4
    IN  [ structure_score |-> structure, context_score |-> context,
          combined_score |-> structure + context,
          suggestions |-> IF s5 # << >> THEN s5 ELSE << "good" >> ]

ScorePrompt ==
    /\ Idle
    /\ \E prompt \in Prompts :
        /\ prompt.kind = "str"
        /\ op' = "score_prompt"
        /\ args' = [ prompt |-> prompt ]
        /\ ret' = score_prompt(prompt)
    /\ UNCHANGED <<held, store>>

\* the project a tool is called with: None (<<>>) or a name
Projects == { << >>, << "front" >>, << "back" >> }

\* the rows a query of PromptAnalytics sees for project_name
ProjectRows(rows, project_name) ==
    IF project_name = << "front" >> THEN rows ELSE << >>

\* the result of get_best_prompts and of get_worst_prompts for the prompts
WithCount(prompts) ==
    IF Len(prompts) = 0
    THEN [ count |-> Len(prompts), prompts |-> prompts,
           message |-> "No session data found" ]
    ELSE [ count |-> Len(prompts), prompts |-> prompts ]

\* the tool get_best_prompts(project, limit, strict, min_quality)
mcp_get_best_prompts ==
    /\ Idle
    /\ \E rows \in Batches, project \in Projects, limit \in Limits,
          strict \in BOOLEAN, min_quality \in { << >>, << 5 >> } :
        /\ op' = "get_best_prompts"
        /\ args' = [ rows |-> rows, project |-> project, limit |-> limit,
                     strict |-> strict, min_quality |-> min_quality ]
        /\ \E r \in CallGetBestPrompts(
                      { "project_name", "limit", "strict_mode", "min_quality" },
                      ProjectRows(rows, project), limit) :
             ret' = IF r.kind = "raise" THEN r
                    ELSE Return_(WithCount(r.value))
    /\ UNCHANGED <<held, store>>

\* the tool get_worst_prompts(project, limit)
mcp_get_worst_prompts ==
    /\ Idle
    /\ \E rows \in Batches, project \in Projects, limit \in Limits :
        /\ op' = "get_worst_prompts"
        /\ args' = [ rows |-> rows, project |-> project, limit |-> limit ]
        /\ \E prompts \in get_worst_prompts(ProjectRows(rows, project), limit) :
             ret' = Return_(WithCount(prompts))
    /\ UNCHANGED <<held, store>>

\* the tool analyze_sessions(project). sessions is what list_sessions of the
\* Store answers: the sessions of the project, and for None either all of
\* them or none; each of the four analyses is a query that gives the groups
\* of the rows it sees, here their number
analyze_sessions ==
    /\ Idle
    /\ \E rows \in Batches, project \in Projects :
       \E sessions \in { ProjectRows(rows, project) }
                         \cup (IF project = << >> THEN { rows } ELSE { }) :
        /\ op' = "analyze_sessions"
        /\ args' = [ rows |-> rows, project |-> project,
                     sessions |-> sessions ]
        /\ ret' = LET seen == Len(ProjectRows(rows, project))
                      result == [ time_analysis |-> seen,
                                  language_distribution |-> seen,
                                  category_stats |-> seen,
                                  branch_productivity |-> seen ]
                  IN  Return_(IF Len(sessions) = 0
                              THEN [ analyses |-> result,
                                     message |-> "No session data found" ]
                              ELSE [ analyses |-> result ])
    /\ UNCHANGED <<held, store>>

\* the tool get_prompt_patterns(project, limit). A record of the ranking has
\* no key "prompt", so prompt_text is "" and no pattern is counted
get_prompt_patterns ==
    /\ Idle
    /\ \E rows \in Batches, project \in Projects, limit \in Limits :
        /\ op' = "get_prompt_patterns"
        /\ args' = [ rows |-> rows, project |-> project, limit |-> limit ]
        /\ \E r \in CallGetBestPrompts(
                      { "project_name", "limit", "strict_mode" },
                      ProjectRows(rows, project), 20) :
             ret' = IF r.kind = "raise" THEN r
                    ELSE LET shown == SliceTo(r.value, limit)
                             result ==
                               [ patterns |-> 0,
                                 top_examples |->
                                   [ i \in 1 .. Len(shown) |->
                                       [ prompt |-> "",
                                         score |-> shown[i].composite_score ] ] ]
                         IN  Return_(IF Len(r.value) = 0
                                     THEN [ found |-> result,
                                            message |-> "No session data found" ]
                                     ELSE [ found |-> result ])
    /\ UNCHANGED <<held, store>>

NextGateway ==
    \/ ScorePrompt
    \/ mcp_get_best_prompts
    \/ mcp_get_worst_prompts
    \/ analyze_sessions
    \/ get_prompt_patterns
    \/ Return

SpecGateway == Init /\ [][NextGateway]_vars

\* a data-backed tool has been called
DataBacked ==
    op \in { "get_best_prompts", "get_worst_prompts", "analyze_sessions",
             "get_prompt_patterns" }

\* C19: each data-backed tool of the gateway (get_best_prompts,
\* get_worst_prompts, analyze_sessions, get_prompt_patterns) returns its plain
\* result without raising and, when the Store holds no session, with a
\* guidance message in it; for get_best_prompts and get_worst_prompts the
\* count is the number of prompts returned.
C19_GatewayResults ==
    DataBacked =>
        /\ ret.kind = "return"
        /\ args.rows = << >> => "message" \in DOMAIN ret.value
        /\ op \in { "get_best_prompts", "get_worst_prompts" } =>
             ret.value.count = Len(ret.value.prompts)

\* the suggestions the thresholds of score_prompt trigger for a prompt
Triggered(prompt) ==
    LET structure == calculate_structure_score(prompt)
        context == calculate_context_score(prompt)
        hit(k) == \/ k = "goal" /\ structure < 4
                  \/ k = "specific" /\ structure < 6
                  \/ k = "file" /\ context < 2
                  \/ k = "technology" /\ context < 4
                  \/ k = "details" /\ StrLen(prompt.toks) < 20
    IN  SelectSeq(<< "goal", "specific", "file", "technology", "details" >>, hit)

----------------------------------------------------------------------------
(* C21: the metrics as sums of signals *)

\* the number of the sets of words a prompt matches
SignalCount(sets, prompt) ==
    Cardinality({ i \in 1 .. Len(sets) : Search(sets[i], prompt.toks) })

StructureSignals == << GoalWords, TargetWords, ConstraintWords, ExampleWords >>

ContextSignals ==
    << PathWords, TechWords, CodeWords, ErrorWords, BackgroundWords >>

\* the length points of the claim, for a text of n characters
LengthPoints(n) ==
    IF 20 <= n /\ n <= 500 THEN 2
    ELSE IF (10 <= n /\ n <= 19) \/ (501 <= n /\ n <= 1000) THEN 1
    ELSE 0

\* the prompt with one more fragment
Extended(prompt, w) == Str(Append(prompt.toks, w))

\* C21: the structure score is 2 points for each of the goal, target,
\* constraint and example signals present plus the length points (2 in
\* [20,500], 1 in [10,19] or [501,1000], 0 otherwise), the context score 2
\* points for each of its five signals present; so a goal signal gives
\* structure >= 2, a path, technology or code signal gives context >= 2, and
\* a prompt extended so that it has a signal more never scores lower.
C21_SignalSums ==
    /\ op = "calculate_structure_score" =>
        /\ ret = 2 * SignalCount(StructureSignals, args.prompt)
                   + LengthPoints(StrLen(args.prompt.toks))
        /\ Search(GoalWords, args.prompt.toks) => ret >= 2
        /\ \A w \in Vocabulary :
              SignalCount(StructureSignals, Extended(args.prompt, w))
                > SignalCount(StructureSignals, args.prompt)
              => calculate_structure_score(Extended(args.prompt, w)) >= ret
    /\ op = "calculate_context_score" =>
        /\ ret = 2 * SignalCount(ContextSignals, args.prompt)
        /\ Search(PathWords \cup TechWords \cup CodeWords, args.prompt.toks)
             => ret >= 2
        /\ \A w \in Vocabulary :
              SignalCount(ContextSignals, Extended(args.prompt, w))
                > SignalCount(ContextSignals, args.prompt)
              => calculate_context_score(Extended(args.prompt, w)) >= ret

\* 504 characters with a goal: 2 points for the signal and 1 for the length
C21_Witness ==
    /\ op = "calculate_structure_score"
    /\ args.prompt = Str(<< "z{500}", "fix" >>)
    /\ SignalCount(StructureSignals, args.prompt) = 1
    /\ ret = 3

----------------------------------------------------------------------------
(* C22 - C24: the three steps of generate_suggestions *)

\* the suggestions of one type in a list, in their order
OfType(suggestions, type) ==
    SelectSeq(suggestions, LAMBDA s : s.type = type)

\* the user_pattern suggestions the claim expects of a call
ExpectedPatterns ==
    LET cites(i) == [ type |-> "user_pattern", of |-> args.analyses[i].template,
                      example |-> args.user_best[i].first_prompt,
                      confidence |-> args.analyses[i].quality_score ]
        first == IF Len(args.user_best) >= 1 /\ args.analyses[1].template # ""
                 THEN << cites(1) >> ELSE << >>
        second == IF Len(args.user_best) >= 2 /\ args.analyses[2].template # ""
                  THEN << cites(2) >> ELSE << >>
    IN  first \o second

\* C22: generate_suggestions makes user_pattern suggestions for the first 2
\* entries of the history only, and only for an entry whose analysis has a
\* template; each cites the template and the prompt of the entry, with the
\* quality estimate of the analysis as confidence; there are at most 2 of
\* them and they come before every generic suggestion.
C22_UserPatterns ==
    op = "generate_suggestions" =>
        LET patterns == OfType(ret, "user_pattern")
        IN  /\ patterns = ExpectedPatterns
            /\ Len(patterns) <= 2
            /\ \A i \in 1 .. Len(ret) : i <= Len(patterns) <=>
                                          ret[i].type = "user_pattern"

\* a history of three prompts: the first has no template and is skipped, the
\* second is cited, the third is not looked at
C22_Witness ==
    /\ op = "generate_suggestions"
    /\ Len(args.user_best) = 3
    /\ args.analyses[1].template = ""
    /\ args.analyses[2].template = "[FILE] [TASK]"
    /\ Len(ret) = 2
    /\ ret[1] = [ type |-> "user_pattern", of |-> "[FILE] [TASK]",
                  example |-> args.user_best[2].first_prompt,
                  confidence |-> 90 ]
    /\ ret[2].type = "generic"

\* the issues of the problems of a call that have a template of their own, in
\* the order of the problems
TemplatedIssues ==
    LET issues == [ i \in 1 .. Len(args.problems) |-> args.problems[i].issue ]
    IN  SelectSeq(issues,
                  LAMBDA k : k \in { "no_file", "no_context", "no_error" })

\* C23: after the user_pattern suggestions, generate_suggestions walks the
\* problems in their order and appends one generic suggestion for each problem
\* whose issue is no_file, no_context or no_error (none for no_target and
\* conversational), until the list holds 3 suggestions; the generic
\* suggestions are in the order of their problems.
C23_ProblemWalk ==
    (op = "generate_suggestions"
       /\ (ExpectedPatterns # << >> \/ TemplatedIssues # << >>)) =>
        LET patterns == OfType(ret, "user_pattern")
            generics == OfType(ret, "generic")
        IN  /\ ret = patterns \o generics
            /\ [ i \in 1 .. Len(generics) |-> generics[i].of ]
                 = SliceTo(TemplatedIssues, 3 - Len(patterns))

\* two patterns of the history, then the problems conversational, no_error and
\* no_file: the first has no suggestion, the second fills the list, the third
\* is not reached
C23_Witness ==
    /\ op = "generate_suggestions"
    /\ Len(args.problems) = 3
    /\ [ i \in 1 .. 3 |-> args.problems[i].issue ]
         = << "conversational", "no_error", "no_file" >>
    /\ Len(ret) = 3
    /\ ret[2].type = "user_pattern"
    /\ ret[3] = [ type |-> "generic", of |-> "no_error", confidence |-> 60 ]

\* the places of the fallback suggestion in the result of a call
Fallbacks == { i \in 1 .. Len(ret) : ret[i].of = "prompt" }

\* C24: the fallback suggestion (generic, template and example both the
\* original prompt, confidence 0.5) is made if and only if neither the history
\* nor the problems gave a suggestion, and it is then the only element of the
\* list.
C24_Fallback ==
    op = "generate_suggestions" =>
        /\ Fallbacks # { } <=>
             (ExpectedPatterns = << >> /\ TemplatedIssues = << >>)
        /\ Fallbacks # { } =>
             /\ Len(ret) = 1
             /\ ret[1].type = "generic"
             /\ ret[1].template = args.prompt
             /\ ret[1].example = args.prompt
             /\ ret[1].confidence = 50

\* a history without a template and the problems no_target and
\* conversational: nothing to suggest but the prompt itself
C24_Witness ==
    /\ op = "generate_suggestions"
    /\ Len(args.user_best) = 2
    /\ Len(args.problems) = 2
    /\ args.problems[1].issue = "no_target"
    /\ args.problems[2].issue = "conversational"
    /\ args.prompt = Str(<< "fix" >>)
    /\ Len(ret) = 1
    /\ ret[1].template = Str(<< "fix" >>)
    /\ ret[1].confidence = 50

----------------------------------------------------------------------------
(* C25, C30: the expected impact *)

\* the target of a score and the improvement ratio of the claim, in twentieths
TargetOf(x) == Min(10, Max(7, x + 3))

Ratio20(scores) ==
    LET delta == (TargetOf(scores.structure) - scores.structure)
                   + (TargetOf(scores.context) - scores.context)
    IN  Min(14, Max(2, delta))

Abs(n) == IF n >= 0 THEN n ELSE 0 - n

\* e is the integer nearest to num / den, the even one of two equally near
Nearest(e, num, den) ==
    /\ 2 * Abs(e * den - num) <= den
    /\ 2 * Abs(e * den - num) = den => e % 2 = 0

\* improvement is the signed whole percentage of the change num / den, cut
\* towards zero
SignedPercent(improvement, num, den) ==
    /\ DOMAIN improvement = { "sign", "percent" }
    /\ improvement.sign = (IF num >= 0 THEN "+" ELSE "")
    /\ Abs(improvement.percent) * den <= 100 * Abs(num)
    /\ 100 * Abs(num) < (Abs(improvement.percent) + 1) * den
    /\ num >= 0 => improvement.percent >= 0
    /\ num < 0 => improvement.percent <= 0

\* C25 as stated: the expected values are the baselines scaled by the ratio:
\* expected messages = 9 * (1 - ratio), expected code = 2 * (1 + 2 * ratio),
\* expected success = min(0.95, 0.35 + 0.6 * ratio).
C25_ScaledExactly ==
    op = "calculate_expected_impact" =>
        LET r == Ratio20(args.current_scores)
        IN  /\ 20 * ret.messages.expected = 9 * (20 - r)
            /\ 20 * ret.code_generation.expected = 2 * (20 + 2 * r)
            /\ ret.success_rate.expected = Min(95, 35 + 3 * r)

\* C25: with target = min(10, max(7, x + 3)) for each score and the ratio
\* clamped to [0.1, 0.7], the expected messages are 9 * (1 - ratio) rounded to
\* the nearest integer and at least 3, the expected code 2 * (1 + 2 * ratio)
\* rounded to the nearest integer and at least 1, the expected success
\* 0.35 + 0.6 * ratio capped at 0.95; each metric reports current, expected and
\* the signed percentage of the change from current to the reported expected
\* value, cut to a whole number, that of the messages with its sign inverted.
C25_ExpectedImpact ==
    op = "calculate_expected_impact" =>
        LET r == Ratio20(args.current_scores)
            m == ret.messages
            c == ret.code_generation
            s == ret.success_rate
        IN  /\ m.current = 9 /\ c.current = 2 /\ s.current = 35
            /\ m.expected >= 3
            /\ m.expected > 3 => Nearest(m.expected, 9 * (20 - r), 20)
            /\ c.expected >= 1
            /\ c.expected > 1 => Nearest(c.expected, 2 * (20 + 2 * r), 20)
            /\ s.expected = Min(95, 35 + 3 * r)
            /\ SignedPercent(m.improvement, m.current - m.expected, m.current)
            /\ SignedPercent(c.improvement, c.expected - c.current, c.current)
            /\ SignedPercent(s.improvement, s.expected - s.current, s.current)

\* structure 5 and context 4: the ratio is 0.3, 9 * 0.7 = 6.3 is reported as 6
\* messages (+33%), 2 * 1.6 = 3.2 as 3 code outputs (+50%), success 0.53 (+51%)
C25_Witness ==
    /\ op = "calculate_expected_impact"
    /\ args.current_scores = [ structure |-> 5, context |-> 4 ]
    /\ ret.messages.expected = 6
    /\ ret.messages.improvement = [ sign |-> "+", percent |-> 33 ]
    /\ ret.code_generation.expected = 3
    /\ ret.code_generation.improvement = [ sign |-> "+", percent |-> 50 ]
    /\ ret.success_rate.expected = 53
    /\ ret.success_rate.improvement = [ sign |-> "+", percent |-> 51 ]

\* the improvement ratio behind a result, in twentieths: the expected success
\* is 0.35 + 0.6 * ratio
RatioBehind(impact) == (impact.success_rate.expected - 35) \div 3

\* C30: for every structure and context score of 0..10 the improvement ratio
\* is in [0.1, 0.7] and does not increase when a score increases, the expected
\* messages are between 3 and the current 9, the expected code is at least the
\* current 2, the expected success is above 0.35 and at most 0.95, and none of
\* the three improvements is "N/A": each has a '+' sign.
C30_ImpactBounds ==
    op = "calculate_expected_impact" =>
        /\ 3 * RatioBehind(ret) = ret.success_rate.expected - 35
        /\ RatioBehind(ret) \in 2 .. 14
        /\ \A structure \in 0 .. 10, context \in 0 .. 10 :
              (structure >= args.current_scores.structure
                 /\ context >= args.current_scores.context)
              => RatioBehind(calculate_expected_impact(
                     [ structure |-> structure, context |-> context ]))
                   <= RatioBehind(ret)
        /\ ret.messages.expected \in 3 .. 9
        /\ ret.messages.expected <= ret.messages.current
        /\ ret.code_generation.expected >= ret.code_generation.current
        /\ ret.code_generation.current = 2
        /\ ret.success_rate.expected > 35
        /\ ret.success_rate.expected <= 95
        /\ \A k \in { "messages", "code_generation", "success_rate" } :
              /\ "text" \notin DOMAIN ret[k].improvement
              /\ ret[k].improvement.sign = "+"

\* both scores at 10: the ratio is at its floor 0.1, 8 messages, still 2 code
\* outputs ("+0%") and a success rate of 0.41
C30_Witness ==
    /\ op = "calculate_expected_impact"
    /\ args.current_scores = [ structure |-> 10, context |-> 10 ]
    /\ RatioBehind(ret) = 2
    /\ ret.messages.expected = 8
    /\ ret.code_generation.expected = 2
    /\ ret.code_generation.improvement = [ sign |-> "+", percent |-> 0 ]
    /\ ret.success_rate.expected = 41

----------------------------------------------------------------------------
(* C26: the user insights *)

\* how many prompts of a history have a file path, an error message
WithFilePath(user_best) ==
    Cardinality({ i \in 1 .. Len(user_best) :
                    _has_file_path(user_best[i].first_prompt) })

WithErrorMessage(user_best) ==
    Cardinality({ i \in 1 .. Len(user_best) :
                    _has_error_message(user_best[i].first_prompt) })

\* C26: generate_user_insights returns the empty list for an empty history
\* (so also when include_history is false or the lookup failed); for a history
\* that is not empty it returns exactly two insights: first that of the file
\* paths, a strength iff at least 0.6 of the prompts have a file path and a
\* weakness otherwise, then that of the error messages, a strength iff at
\* least 0.4 of the prompts have an error message and a weakness otherwise.
C26_UserInsights ==
    /\ op = "generate_user_insights" =>
         LET user_best == args.user_best
             n == Len(user_best)
         IN  /\ n = 0 => ret = << >>
             /\ n > 0 =>
                  /\ Len(ret) = 2
                  /\ ret[1].about = "file"
                  /\ ret[1].type \in { "strength", "weakness" }
                  /\ ret[1].type = "strength"
                       <=> 10 * WithFilePath(user_best) >= 6 * n
                  /\ ret[2].about = "error"
                  /\ ret[2].type \in { "strength", "weakness" }
                  /\ ret[2].type = "strength"
                       <=> 10 * WithErrorMessage(user_best) >= 4 * n
    /\ (op = "analyze" /\ ret.kind = "CoachingResult"
          /\ (~ args.include_history \/ LookupFails(args.rows))) =>
         ret.user_insights = << >>

\* two of three prompts with a file path (0.66: a strength), one with an
\* error message (0.33: a weakness)
C26_Witness ==
    /\ op = "generate_user_insights"
    /\ Len(args.user_best) = 3
    /\ WithFilePath(args.user_best) = 2
    /\ WithErrorMessage(args.user_best) = 1
    /\ ret = << [ type |-> "strength", about |-> "file", value |-> 66 ],
                [ type |-> "weakness", about |-> "error" ] >>

----------------------------------------------------------------------------
(* C27: the flags and the order of the steps of analyze *)

\* the statements of analyze in the order of the claim
PipelineOrder ==
    << "detect_language", "scores", "identify_problems", "history",
       "generate_suggestions", "extensions", "expected_impact",
       "user_insights", "return" >>

\* call c has called the collaborator
Called(c, collaborator) ==
    \E i \in 1 .. Len(held[c].calls) : held[c].calls[i] = collaborator

\* C27: analyze honours its flags: with include_history false it does not
\* call the analytics collaborator and the history is empty, with
\* detect_extensions false it does not call the extension collaborator and
\* extension_suggestion is absent; in every case it runs language detection,
\* scoring, problem identification, history lookup, suggestion generation,
\* extension query, impact estimate and user insights in this order and
\* returns one whole CoachingResult with the prompt and the scores of the call.
C27_FlagsAndOrder ==
    op = "concurrent analyze" =>
        \A c \in 1 .. 2 :
            /\ \A i \in 1 .. Len(held[c].steps) :
                   held[c].steps[i] = PipelineOrder[i]
            /\ ~ args[c].include_history =>
                   (~ Called(c, "analytics")
                      /\ held[c].user_best = << >>)
            /\ ~ args[c].detect_extensions =>
                   (~ Called(c, "extensions")
                      /\ held[c].extension_suggestion = << >>)
            /\ held[c].pc = "done" =>
                   /\ held[c].steps = PipelineOrder
                   /\ ret[c].kind = "CoachingResult"
                   /\ DOMAIN ret[c] = CoachingResultFields
                   /\ ret[c].original_prompt = args[c].prompt
                   /\ ret[c].scores =
                        [ structure |-> calculate_structure_score(args[c].prompt),
                          context |-> calculate_context_score(args[c].prompt) ]

----------------------------------------------------------------------------
(* C28: when the no_target problem is reported *)

\* the list of problems names the issue
Reported(problems, issue) ==
    \E i \in 1 .. Len(problems) : problems[i].issue = issue

\* the length lies in the band that alone gives 2 points
InBand(length) == 20 <= length /\ length <= 500

\* C28: analyze reports no_target exactly when the prompt has none of the
\* goal, target, constraint and example signals and its length lies outside
\* [20,500]; a prompt of 20 to 500 characters has a structure score of at
\* least 2 and is never reported as no_target, even with no goal and no target.
C28_NoTarget ==
    (op = "analyze" /\ ret.kind = "CoachingResult") =>
        LET length == StrLen(args.prompt.toks)
        IN  /\ Reported(ret.problems, "no_target")
                 <=> (SignalCount(StructureSignals, args.prompt) = 0
                        /\ ~ InBand(length))
            /\ InBand(length) =>
                   (ret.scores.structure >= 2
                      /\ ~ Reported(ret.problems, "no_target"))

\* 21 characters with no goal and no target: the length alone gives 2 points
\* and no_target is not among the problems
C28_Witness ==
    /\ op = "analyze"
    /\ ret.kind = "CoachingResult"
    /\ args.prompt = Str(<< "TypeError:", "TypeError:" >>)
    /\ StrLen(args.prompt.toks) = 21
    /\ SignalCount(StructureSignals, args.prompt) = 0
    /\ ret.scores.structure = 2
    /\ ret.problems = << _problem("no_file", "medium") >>

----------------------------------------------------------------------------
(* C29: the size of the best and the worst lists *)

\* the records of the ranked batch that the returned list does not hold
NotReturned(all_prompts, returned) ==
    { all_prompts[j] : j \in 1 .. Len(all_prompts) } \
        { returned[i] : i \in 1 .. Len(returned) }

\* C29: for every batch and every limit >= 0, get_best_prompts(limit) and
\* get_worst_prompts(limit) return at most limit records each (none for
\* limit = 0), and no record returned by get_worst_prompts has a
\* composite_score above that of a record of the batch it did not return.
C29_AtMostLimit ==
    /\ op = "PromptAnalytics.get_best_prompts" => Len(ret) <= args.limit
    /\ op = "PromptAnalytics.get_worst_prompts" =>
         /\ Len(ret) <= args.limit
         /\ \E all_prompts \in analyze_prompt_quality(args.rows) :
               \A i \in 1 .. Len(ret) :
                   \A other \in NotReturned(all_prompts, ret) :
                       ret[i].composite_score <= other.composite_score

====
